---- MODULE Spec2Model ----
(***************************************************************************)
(* Verification model of the code-review pipeline of skcc-architect-std:  *)
(*   src/utils/code_analyzer.py      CodeAnalyzer                          *)
(*   src/utils/lim_manager.py        LLMManager.generate_response          *)
(*   src/utils/rag_manager.py        RAGSystem                              *)
(*   src/agents/code_review_agents.py CodeReviewAgents                     *)
(*                                                                         *)
(* Python values are encoded as records tagged by `jt` so that values of  *)
(* different Python types can sit in one list and be compared.  Operations *)
(* that can raise return [ok |-> TRUE, val |-> v] or                       *)
(* [ok |-> FALSE, err |-> "<exception class>"].                            *)
(***************************************************************************)
EXTENDS Integers, Sequences, FiniteSets, TLC

VARIABLES
    pc,            \* position of the review_code call in the workflow graph
    state,         \* the CodeReviewState threaded through the nodes
    before,        \* history: the CodeReviewState on entry to the node that ran last
    exc,           \* exception that left workflow.invoke, or NoExc
    result,        \* value returned by review_code, or NoResult
    vector_store,  \* RAGSystem.vector_store: the documents of the FAISS index
    llm_log,       \* history: what llm.invoke did in each enrichment node
    ran,           \* history: how often each node has been entered
    faiss_log,     \* history: documents similarity_search returned to the final node
    summary_arg,   \* argument of a direct _generate_summary call
    summary_ret,   \* its outcome
    saved,         \* the index saved at Config.VECTOR_DB_PATH, and who is writing it
    stores,        \* vector_store of the RAGSystem of each session
    adds,          \* the add_custom_practice calls: position, session, return value
    inits,         \* _initialize_knowledge_base of each session: position, whether it built
    reqs,          \* review_code calls running together on one orchestrator, each
                   \* with its position, its state, what it was answered, its result
    call           \* a direct analyze_code_structure call: arguments and outcome

review_vars == <<pc, state, before, exc, result, vector_store, llm_log, ran, faiss_log,
                 summary_arg, summary_ret>>

vars == <<pc, state, before, exc, result, vector_store, llm_log, ran, faiss_log,
          summary_arg, summary_ret, saved, stores, adds, inits, reqs, call>>

(***************************************************************************)
(* Bounds of the exploration.                                              *)
(***************************************************************************)
\* longest issue list handed directly to the final node / the summary
MaxIssues == 3

(***************************************************************************)
(* Python values.                                                          *)
(***************************************************************************)
JStr(s) == [jt |-> "string", s |-> s]
JNum(n) == [jt |-> "number", n |-> n]
JNull == [jt |-> "null"]
JArr(items) == [jt |-> "array", items |-> items]
\* a dict: its keys in insertion order, and the value of each key
JObj(keys, vals) == [jt |-> "object", keys |-> keys, vals |-> vals]

Ok(v) == [ok |-> TRUE, val |-> v]
Raise(e) == [ok |-> FALSE, err |-> e]

Range(f) == {f[i] : i \in DOMAIN f}

Min(a, b) == IF a <= b THEN a ELSE b
Max(a, b) == IF a >= b THEN a ELSE b

\* iter(str): the characters of the strings that occur where a list is expected
StrChars(s) ==
    CASE s = "" -> <<>>
      [] s = "ab" -> <<"a", "b">>
      [] s = "k" -> <<"k">>

\* d.get(key, default); AttributeError when d is a str, a number, a list or None
dict_get(d, key, default) ==
    IF d.jt # "object" THEN Raise("AttributeError")
    ELSE IF key \in DOMAIN d.vals THEN Ok(d.vals[key])
    ELSE Ok(default)

\* d[key]; TypeError when d is not subscriptable by a str, KeyError when absent
dict_item(d, key) ==
    IF d.jt # "object" THEN Raise("TypeError")
    ELSE IF key \in DOMAIN d.vals THEN Ok(d.vals[key])
    ELSE Raise("KeyError")

\* an assignment of the new items in place of extend, for comparison with
\* the extend of the source, which keeps what the list held
list_assign(lst, iterable) ==
    CASE iterable.jt = "array" -> Ok(iterable.items)
      [] iterable.jt = "string" ->
           Ok([i \in 1..Len(StrChars(iterable.s)) |-> JStr(StrChars(iterable.s)[i])])
      [] iterable.jt = "object" ->
           Ok([i \in 1..Len(iterable.keys) |-> JStr(iterable.keys[i])])
      [] OTHER -> Raise("TypeError")

\* lst.extend(iterable): a list gives its items, a str its characters, a dict
\* its keys; a number or None is not iterable and leaves lst untouched
list_extend(lst, iterable) ==
    CASE iterable.jt = "array" -> Ok(lst \o iterable.items)
      [] iterable.jt = "string" ->
           Ok(lst \o [i \in 1..Len(StrChars(iterable.s)) |-> JStr(StrChars(iterable.s)[i])])
      [] iterable.jt = "object" ->
           Ok(lst \o [i \in 1..Len(iterable.keys) |-> JStr(iterable.keys[i])])
      [] OTHER -> Raise("TypeError")

(***************************************************************************)
(* CodeAnalyzer.  A source text is held as its '\n'-separated lines, each  *)
(* line as its lexemes (maximal runs of word characters, punctuation, and  *)
(* blanks) together with len(line); the syntax tree ast.parse builds for   *)
(* the text comes with it (the nodes in ast.walk order, or SyntaxError).   *)
(***************************************************************************)
Languages == <<"python", "javascript", "typescript", "java">>

\* self.language_patterns[lang]['extension']
Extensions(lang) ==
    CASE lang = "python" -> <<<<".", "p", "y">>>>
      [] lang = "javascript" -> <<<<".", "j", "s">>, <<".", "j", "s", "x">>>>
      [] lang = "typescript" -> <<<<".", "t", "s">>, <<".", "t", "s", "x">>>>
      [] lang = "java" -> <<<<".", "j", "a", "v", "a">>>>

\* self.language_patterns[lang]['keywords']
Keywords(lang) ==
    CASE lang = "python" ->
           <<"def", "class", "import", "from", "if", "for", "while", "try", "except">>
      [] lang = "javascript" ->
           <<"function", "var", "let", "const", "if", "for", "while", "try", "catch">>
      [] lang = "typescript" ->
           <<"function", "var", "let", "const", "interface", "type", "class">>
      [] lang = "java" ->
           <<"public", "private", "class", "interface", "if", "for", "while", "try", "catch">>

\* str.endswith
EndsWith(name, ext) ==
    /\ Len(ext) <= Len(name)
    /\ \A i \in 1..Len(ext) : name[Len(name) - Len(ext) + i] = ext[i]

RECURSIVE SumSeq(_)
SumSeq(s) == IF s = <<>> THEN 0 ELSE Head(s) + SumSeq(Tail(s))

\* len(re.findall(r'\b' + keyword + r'\b', line))
WordCountLine(line, keyword) ==
    Cardinality({i \in 1..Len(line.lex) : line.lex[i] = keyword})

\* len(re.findall(r'\b' + keyword + r'\b', code))
WordCount(code, keyword) ==
    SumSeq([i \in 1..Len(code.lines) |-> WordCountLine(code.lines[i], keyword)])

LanguageScore(code, lang) ==
    SumSeq([i \in 1..Len(Keywords(lang)) |-> WordCount(code, Keywords(lang)[i])])

ExtensionMatch(filename, lang) ==
    \E i \in 1..Len(Extensions(lang)) : EndsWith(filename, Extensions(lang)[i])

\* a detector that goes by the keyword scores whatever the file is called
detect_language_by_keywords(code, filename) ==
    Languages[CHOOSE i \in 1..Len(Languages) :
                /\ \A j \in 1..Len(Languages) :
                     LanguageScore(code, Languages[j]) <= LanguageScore(code, Languages[i])
                /\ \A j \in 1..(i - 1) :
                     LanguageScore(code, Languages[j]) < LanguageScore(code, Languages[i])]

\* a detector whose ties go to the last language of the table, for
\* comparison with max(), which keeps the first
detect_language_last_of_ties(code, filename) ==
    IF filename # <<>> /\ \E i \in 1..Len(Languages) : ExtensionMatch(filename, Languages[i])
    THEN Languages[CHOOSE i \in 1..Len(Languages) :
                     /\ ExtensionMatch(filename, Languages[i])
                     /\ \A j \in 1..(i - 1) : ~ExtensionMatch(filename, Languages[j])]
    ELSE Languages[CHOOSE i \in 1..Len(Languages) :
                     /\ \A j \in 1..Len(Languages) :
                          LanguageScore(code, Languages[j]) <= LanguageScore(code, Languages[i])
                     /\ \A j \in (i + 1)..Len(Languages) :
                          LanguageScore(code, Languages[j]) < LanguageScore(code, Languages[i])]

\* the extension loop returns at its first match; otherwise
\* max(scores, key=scores.get): the first key, in insertion order, of the
\* largest score (scores has a key per language, so 'unknown' is never returned)
detect_language(code, filename) ==
    IF filename # <<>> /\ \E i \in 1..Len(Languages) : ExtensionMatch(filename, Languages[i])
    THEN Languages[CHOOSE i \in 1..Len(Languages) :
                     /\ ExtensionMatch(filename, Languages[i])
                     /\ \A j \in 1..(i - 1) : ~ExtensionMatch(filename, Languages[j])]
    ELSE Languages[CHOOSE i \in 1..Len(Languages) :
                     /\ \A j \in 1..Len(Languages) :
                          LanguageScore(code, Languages[j]) <= LanguageScore(code, Languages[i])
                     /\ \A j \in 1..(i - 1) :
                          LanguageScore(code, Languages[j]) < LanguageScore(code, Languages[i])]

RECURSIVE FlattenSeq(_)
FlattenSeq(ss) == IF ss = <<>> THEN <<>> ELSE Head(ss) \o FlattenSeq(Tail(ss))

\* the items at the positions in keep, in order
KeepAt(items, keep) ==
    FlattenSeq([i \in 1..Len(items) |-> IF i \in keep THEN <<items[i]>> ELSE <<>>])

EmptyAnalysis ==
    [functions |-> <<>>, classes |-> <<>>, imports |-> <<>>, complexity_score |-> 0,
     issues |-> <<>>]

\* the imports one Import / ImportFrom node adds
NodeImports(node) ==
    IF node.kind = "Import" THEN node.names
    ELSE IF node.kind = "ImportFrom" THEN <<node.module>>
    ELSE <<>>

\* ast.parse(code): the nodes of the tree in ast.walk order, or the exception
\* raised (SyntaxError and its subclasses for a syntax defect; RecursionError,
\* MemoryError or a ValueError for texts the parser gives up on)
Parsed(nodes) == [parsed |-> TRUE, nodes |-> nodes]
ParseRaises(e) == [parsed |-> FALSE, err |-> e]

\* except SyntaxError: the one exception the analysis turns into a diagnostic
analyze_python_code(code) ==
    IF ~code.tree.parsed
    THEN IF code.tree.err = "SyntaxError"
         THEN Ok([EmptyAnalysis EXCEPT !.issues = <<"syntax error">>])
         ELSE Raise(code.tree.err)
    ELSE LET t == code.tree.nodes IN
         Ok(
         [functions |->
              KeepAt([i \in 1..Len(t) |->
                         [name |-> t[i].name, line |-> t[i].lineno,
                          args |-> t[i].nargs, docstring |-> t[i].doc]],
                     {i \in 1..Len(t) : t[i].kind = "FunctionDef"}),
          classes |->
              KeepAt([i \in 1..Len(t) |->
                         [name |-> t[i].name, line |-> t[i].lineno,
                          methods |-> t[i].nmethods, docstring |-> t[i].doc]],
                     {i \in 1..Len(t) : t[i].kind = "ClassDef"}),
          imports |-> FlattenSeq([i \in 1..Len(t) |-> NodeImports(t[i])]),
          complexity_score |->
              Cardinality({i \in 1..Len(t) : t[i].kind \in {"If", "For", "While", "Try"}}),
          issues |-> <<>>])

ComplexityKeywords == <<"if", "for", "while", "switch", "case", "try", "catch">>

\* lexemes that are not runs of word characters
Punctuation ==
    {" ", "(", ")", "{", "}", ":", ";", "=", "==", "===", "!==", "+", ".", ",", "\"", "'",
     "-", "*", "&&"}

IsWord(x) == x \notin Punctuation

Lex(line, i) == IF i \in 1..Len(line.lex) THEN line.lex[i] ELSE ""

\* re.findall(r'function\s+(\w+)', line)[0], as a list of at most one name
FunctionNameAt(line) ==
    LET hits == {i \in 1..Len(line.lex) :
                    /\ Lex(line, i) = "function"
                    /\ Lex(line, i + 1) = " "
                    /\ Lex(line, i + 2) # "" /\ IsWord(Lex(line, i + 2))}
    IN IF hits = {} THEN <<>>
       ELSE <<Lex(line, (CHOOSE i \in hits : \A j \in hits : i <= j) + 2)>>

\* re.findall(r'(public|private|protected)?\s*(static)?\s*\w+\s+(\w+)\s*\(', line)[0][-1]
JavaMethodAt(line) ==
    LET hits == {i \in 1..Len(line.lex) :
                    /\ IsWord(Lex(line, i))
                    /\ Lex(line, i + 1) = " "
                    /\ Lex(line, i + 2) # "" /\ IsWord(Lex(line, i + 2))
                    /\ \/ Lex(line, i + 3) = "("
                       \/ Lex(line, i + 3) = " " /\ Lex(line, i + 4) = "("}
    IN IF hits = {} THEN <<>>
       ELSE <<Lex(line, (CHOOSE i \in hits : \A j \in hits : i <= j) + 2)>>

\* a generic analysis that scores only the languages it has a function
\* pattern for, for comparison with the source, which scores every language
analyze_generic_code_known_only(code, language) ==
    LET lines == code.lines
        NameAt(line) == IF language = "java" THEN JavaMethodAt(line) ELSE FunctionNameAt(line)
        known == language \in {"javascript", "typescript", "java"}
    IN
    [functions |->
         IF known
         THEN KeepAt([i \in 1..Len(lines) |->
                         [name |-> IF NameAt(lines[i]) = <<>> THEN "" ELSE NameAt(lines[i])[1],
                          line |-> i]],
                     {i \in 1..Len(lines) : NameAt(lines[i]) # <<>>})
         ELSE <<>>,
     classes |-> <<>>,
     imports |-> <<>>,
     complexity_score |->
         IF known
         THEN SumSeq([i \in 1..Len(lines) |->
                        SumSeq([k \in 1..Len(ComplexityKeywords) |->
                                   WordCountLine(lines[i], ComplexityKeywords[k])])])
         ELSE 0,
     issues |-> <<>>]

analyze_generic_code(code, language) ==
    LET lines == code.lines
        NameAt(line) == IF language = "java" THEN JavaMethodAt(line) ELSE FunctionNameAt(line)
    IN
    [functions |->
         IF language \in {"javascript", "typescript", "java"}
         THEN KeepAt([i \in 1..Len(lines) |->
                         [name |-> IF NameAt(lines[i]) = <<>> THEN "" ELSE NameAt(lines[i])[1],
                          line |-> i]],
                     {i \in 1..Len(lines) : NameAt(lines[i]) # <<>>})
         ELSE <<>>,
     classes |-> <<>>,
     imports |-> <<>>,
     complexity_score |->
         SumSeq([i \in 1..Len(lines) |->
                    SumSeq([k \in 1..Len(ComplexityKeywords) |->
                               WordCountLine(lines[i], ComplexityKeywords[k])])]),
     issues |-> <<>>]

analyze_code_structure(code, language) ==
    LET part == IF language = "python" THEN analyze_python_code(code)
                ELSE Ok(analyze_generic_code(code, language))
    IN IF ~part.ok THEN part
       ELSE Ok([lines_of_code |-> Len(code.lines),
                functions |-> part.val.functions,
                classes |-> part.val.classes,
                imports |-> part.val.imports,
                complexity_score |-> part.val.complexity_score,
                issues |-> part.val.issues])

(***************************************************************************)
(* CodeAnalyzer.check_code_quality_issues                                  *)
(***************************************************************************)
MAX_LINE_LENGTH == 120

\* Config.MAX_LINE_LENGTH, which the analyzer imports but does not read
ConfigMaxLineLength == 120

\* an issue dict as the analyzer builds it
Issue(type, severity, line, message) ==
    JObj(<<"type", "severity", "line", "message">>,
         [type |-> JStr(type), severity |-> JStr(severity), line |-> JNum(line),
          message |-> JStr(message)])

Quotes == {"\"", "'"}

\* lexemes holding two or more consecutive digits
TwoDigits == {"42", "id42", "2024"}

\* re.search(r'["\'][^"\']*[0-9]{2,}[^"\']*["\']', line)
HardcodedValue(line) ==
    \E i, j \in 1..Len(line.lex) :
        /\ i < j
        /\ line.lex[i] \in Quotes /\ line.lex[j] \in Quotes
        /\ \A m \in (i + 1)..(j - 1) : line.lex[m] \notin Quotes
        /\ \E m \in (i + 1)..(j - 1) : line.lex[m] \in TwoDigits

\* a common loop that already objects to a line of exactly 120 characters
CommonIssuesFrom120(lines, i) ==
    (IF lines[i].width >= MAX_LINE_LENGTH
     THEN <<Issue("Code Quality", "Warning", i,
                  "line too long (" \o ToString(lines[i].width) \o " chars), keep it within 120")>>
     ELSE <<>>)
    \o
    (IF HardcodedValue(lines[i])
     THEN <<Issue("Best Practices", "Info", i, "hard-coded value, consider a constant")>>
     ELSE <<>>)

\* the issues the common loop appends for line i
CommonIssuesAt(lines, i) ==
    (IF lines[i].width > MAX_LINE_LENGTH
     THEN <<Issue("Code Quality", "Warning", i,
                  "line too long (" \o ToString(lines[i].width) \o " chars), keep it within 120")>>
     ELSE <<>>)
    \o
    (IF HardcodedValue(lines[i])
     THEN <<Issue("Best Practices", "Info", i, "hard-coded value, consider a constant")>>
     ELSE <<>>)

\* line.strip(): the lexemes without leading and trailing blanks
Strip(line) ==
    LET solid == {i \in 1..Len(line.lex) : line.lex[i] # " "} IN
    IF solid = {} THEN <<>>
    ELSE SubSeq(line.lex, CHOOSE i \in solid : \A j \in solid : i <= j,
                CHOOSE i \in solid : \A j \in solid : j <= i)

\* stripped.startswith(word + ' ')
StartsWithWord(stripped, word) ==
    Len(stripped) >= 2 /\ stripped[1] = word /\ stripped[2] = " "

\* 'except:' in stripped
HasBareExcept(stripped) ==
    \E i \in 1..(Len(stripped) - 1) : stripped[i] = "except" /\ stripped[i + 1] = ":"

PythonIssuesAt(lines, i) ==
    (IF /\ StartsWithWord(Strip(lines[i]), "from")
        /\ i > 1
        /\ StartsWithWord(Strip(lines[i - 1]), "import")
        /\ ~StartsWithWord(Strip(lines[i - 1]), "from")
     THEN <<Issue("Best Practices", "Info", i, "put from-imports before plain imports")>>
     ELSE <<>>)
    \o
    (IF HasBareExcept(Strip(lines[i]))
     THEN <<Issue("Best Practices", "Warning", i, "name the exception type")>>
     ELSE <<>>)

check_python_issues(code, lines) ==
    FlattenSeq([i \in 1..Len(lines) |-> PythonIssuesAt(lines, i)])

JsIssuesAt(lines, i) ==
    (IF \E k \in 1..Len(Strip(lines[i])) : Strip(lines[i])[k] = "var"
     THEN <<Issue("Best Practices", "Warning", i, "use let or const instead of var")>>
     ELSE <<>>)
    \o
    (IF /\ \E k \in 1..Len(Strip(lines[i])) : Strip(lines[i])[k] \in {"==", "===", "!=="}
        /\ ~\E k \in 1..Len(Strip(lines[i])) : Strip(lines[i])[k] = "==="
     THEN <<Issue("Best Practices", "Warning", i, "use === instead of ==")>>
     ELSE <<>>)

check_js_issues(code, lines) ==
    FlattenSeq([i \in 1..Len(lines) |-> JsIssuesAt(lines, i)])

check_code_quality_issues(code, language) ==
    LET lines == code.lines IN
    FlattenSeq([i \in 1..Len(lines) |-> CommonIssuesAt(lines, i)])
    \o
    (IF language = "python" THEN check_python_issues(code, lines)
     ELSE IF language \in {"javascript", "typescript"} THEN check_js_issues(code, lines)
     ELSE <<>>)

(***************************************************************************)
(* LLMManager.generate_response and json.loads.  A text is known by what   *)
(* json.loads makes of it: a value, or a JSONDecodeError.                  *)
(***************************************************************************)
JsonText(v) == [src |-> "json", value |-> v]
ProseText == [src |-> "prose"]
\* the text generate_response builds from a failed call
ErrorText == [src |-> "error message"]

\* llm.invoke(messages): raises, or returns a message with this content
LlmRaises == [raised |-> TRUE]
LlmReturns(text) == [raised |-> FALSE, content |-> text]

generate_response(llm) == IF llm.raised THEN ErrorText ELSE llm.content

json_loads(text) ==
    IF text.src = "json" THEN Ok(text.value) ELSE Raise("JSONDecodeError")

(***************************************************************************)
(* CodeReviewAgents: the nodes of the workflow.                            *)
(***************************************************************************)
Nodes ==
    <<"analyzer", "quality_checker", "security_reviewer", "performance_optimizer",
      "documentation_generator", "final_reviewer">>

EnrichmentNodes ==
    {"quality_checker", "security_reviewer", "performance_optimizer",
     "documentation_generator"}

\* _create_workflow: set_entry_point and add_edge
EntryPoint == "analyzer"

\* a workflow wired without the security node, for comparison with the
\* order the source wires
EdgeSkippingSecurity(node) ==
    CASE node = "analyzer" -> "quality_checker"
      [] node = "quality_checker" -> "performance_optimizer"
      [] node = "security_reviewer" -> "performance_optimizer"
      [] node = "performance_optimizer" -> "documentation_generator"
      [] node = "documentation_generator" -> "final_reviewer"
      [] node = "final_reviewer" -> "END"

Edge(node) ==
    CASE node = "analyzer" -> "quality_checker"
      [] node = "quality_checker" -> "security_reviewer"
      [] node = "security_reviewer" -> "performance_optimizer"
      [] node = "performance_optimizer" -> "documentation_generator"
      [] node = "documentation_generator" -> "final_reviewer"
      [] node = "final_reviewer" -> "END"

\* the key of the model's answer each enrichment node reads
IssueField(node) ==
    CASE node = "quality_checker" -> "issues"
      [] node = "security_reviewer" -> "vulnerabilities"
      [] node = "performance_optimizer" -> "optimizations"
      [] node = "documentation_generator" -> "suggestions"

\* current_step each node sets when it completes
StepOf(node) ==
    CASE node = "analyzer" -> "analysis_complete"
      [] node = "quality_checker" -> "quality_check_complete"
      [] node = "security_reviewer" -> "security_review_complete"
      [] node = "performance_optimizer" -> "performance_optimization_complete"
      [] node = "documentation_generator" -> "documentation_complete"
      [] node = "final_reviewer" -> "review_complete"

EmptyDict == JObj(<<>>, <<>>)

\* review_code: CodeReviewState(code=code, filename=filename, ...)
InitialState(code, filename) ==
    [code |-> code, filename |-> filename, language |-> "",
     analysis_result |-> EmptyDict, issues |-> <<>>, recommendations |-> <<>>,
     optimized_code |-> JStr(""), messages |-> <<>>, current_step |-> "start"]

\* an analyzer node that analyses under the language the state held on
\* entry, for comparison with the source, which detects the language first
analyzer_agent_reading_state(st) ==
    LET language == detect_language(st.code, st.filename)
        analysis_result == analyze_code_structure(st.code, st.language)
        issues == check_code_quality_issues(st.code, st.language)
    IN IF ~analysis_result.ok THEN analysis_result
       ELSE Ok([st EXCEPT !.language = language, !.analysis_result = analysis_result.val,
                          !.issues = issues, !.current_step = "analysis_complete"])

analyzer_agent(st) ==
    LET language == detect_language(st.code, st.filename)
        analysis_result == analyze_code_structure(st.code, language)
        issues == check_code_quality_issues(st.code, language)
    IN IF ~analysis_result.ok THEN analysis_result
       ELSE Ok([st EXCEPT !.language = language, !.analysis_result = analysis_result.val,
                          !.issues = issues, !.current_step = "analysis_complete"])

\* a try block whose handler loses the issues collected so far, for
\* comparison with the handler of the source, which only logs
AppendIssuesLosingOnFailure(st, llm, field, step) ==
    LET parsed == json_loads(generate_response(llm)) IN
    IF ~parsed.ok THEN [st EXCEPT !.issues = <<>>]
    ELSE LET found == dict_get(parsed.val, field, JArr(<<>>)) IN
         IF ~found.ok THEN st
         ELSE LET current_issues == list_extend(st.issues, found.val) IN
              IF ~current_issues.ok THEN st
              ELSE [st EXCEPT !.issues = current_issues.val, !.current_step = step]

\* the try block shared by the quality, security and documentation nodes:
\* any exception leaves the state as it was
AppendIssues(st, llm, field, step) ==
    LET parsed == json_loads(generate_response(llm)) IN
    IF ~parsed.ok THEN st
    ELSE LET found == dict_get(parsed.val, field, JArr(<<>>)) IN
         IF ~found.ok THEN st
         ELSE LET current_issues == list_extend(st.issues, found.val) IN
              IF ~current_issues.ok THEN st
              ELSE [st EXCEPT !.issues = current_issues.val, !.current_step = step]

quality_checker_agent(st, llm) ==
    AppendIssues(st, llm, "issues", "quality_check_complete")

security_reviewer_agent(st, llm) ==
    AppendIssues(st, llm, "vulnerabilities", "security_review_complete")

performance_optimizer_agent(st, llm) ==
    LET parsed == json_loads(generate_response(llm)) IN
    IF ~parsed.ok THEN st
    ELSE LET found == dict_get(parsed.val, "optimizations", JArr(<<>>)) IN
         IF ~found.ok THEN st
         ELSE LET current_issues == list_extend(st.issues, found.val) IN
              IF ~current_issues.ok THEN st
              ELSE [st EXCEPT !.issues = current_issues.val,
                              !.optimized_code =
                                  dict_get(parsed.val, "optimized_code", JStr("")).val,
                              !.current_step = "performance_optimization_complete"]

documentation_generator_agent(st, llm) ==
    AppendIssues(st, llm, "suggestions", "documentation_complete")

(***************************************************************************)
(* RAGSystem.  vector_store is None or a FAISS index, held as the list of  *)
(* its documents.  What similarity_search answers to one query is an       *)
(* input: it raises, or returns documents of the index.                    *)
(***************************************************************************)
NoStore == [loaded |-> FALSE]
Store(docs) == [loaded |-> TRUE, docs |-> docs]

Document(content, category, title, language) ==
    [page_content |-> content,
     metadata |-> [category |-> category, title |-> title, language |-> language]]

FaissRaises == [raised |-> TRUE]
FaissReturns(docs) == [raised |-> FALSE, docs |-> docs]

search_knowledge(vs, faiss) ==
    IF ~vs.loaded THEN <<>>
    ELSE IF faiss.raised THEN <<>>
    ELSE faiss.docs

\* the query f"{issue['type']} {issue['message']} {language}" of one issue
IssueQuery(issue, language) ==
    LET type == dict_item(issue, "type")
        message == IF issue.jt = "object" THEN dict_item(issue, "message") ELSE type
    IN IF ~type.ok THEN type
       ELSE IF ~message.ok THEN message
       ELSE Ok(<<type.val, message.val, language>>)

\* get_relevant_practices asks for k=2 documents and returns at most 5
PracticesPerIssue == 2
MaxPractices == 5

\* a slice that keeps everything, for comparison with [:5]
TakeAll(s, n) == s

Take(s, n) == SubSeq(s, 1, Min(n, Len(s)))

\* the second loop: the first document of each content, in order
UniqueDocs(relevant_docs) ==
    KeepAt(relevant_docs,
           {i \in 1..Len(relevant_docs) :
               \A j \in 1..(i - 1) :
                   relevant_docs[j].page_content # relevant_docs[i].page_content})

\* answers[i] is what similarity_search does for the query of code_issues[i]
get_relevant_practices(code_issues, language, vs, answers) ==
    LET bad == {i \in 1..Len(code_issues) : ~IssueQuery(code_issues[i], language).ok} IN
    IF bad # {}
    THEN Raise(IssueQuery(code_issues[CHOOSE i \in bad : \A j \in bad : i <= j], language).err)
    ELSE Ok(Take(UniqueDocs(FlattenSeq([i \in 1..Len(code_issues) |->
                                           search_knowledge(vs, answers[i])])),
                 MaxPractices))

\* practice.metadata.get(key, default)
MetaGet(metadata, key, default) ==
    IF key \in DOMAIN metadata THEN metadata[key] ELSE default

Recommendation(practice) ==
    [category |-> MetaGet(practice.metadata, "category", "General"),
     title |-> MetaGet(practice.metadata, "title", "Best Practice"),
     content |-> practice.page_content,
     language |-> MetaGet(practice.metadata, "language", "general")]

\* priority_order.get(x.get("severity", "Info"), 2)
SeverityKey(issue) ==
    LET severity == dict_get(issue, "severity", JStr("Info")) IN
    IF ~severity.ok THEN severity
    ELSE IF severity.val.jt \in {"array", "object"} THEN Raise("TypeError")
    ELSE IF severity.val = JStr("Critical") THEN Ok(0)
    ELSE IF severity.val = JStr("Warning") THEN Ok(1)
    ELSE Ok(2)

\* an insertion that puts an item in front of the items of its own key, the
\* way an unstable sort may, for comparison with sorted()
RECURSIVE InsertByKeyUnstable(_, _)
InsertByKeyUnstable(sorted, item) ==
    IF sorted = <<>> THEN <<item>>
    ELSE IF SeverityKey(item).val <= SeverityKey(Head(sorted)).val THEN <<item>> \o sorted
    ELSE <<Head(sorted)>> \o InsertByKeyUnstable(Tail(sorted), item)

\* sorted(): each item goes behind the items whose key is not larger
RECURSIVE InsertByKey(_, _)
InsertByKey(sorted, item) ==
    IF sorted = <<>> THEN <<item>>
    ELSE IF SeverityKey(item).val < SeverityKey(Head(sorted)).val THEN <<item>> \o sorted
    ELSE <<Head(sorted)>> \o InsertByKey(Tail(sorted), item)

\* a final node that leaves the issues in the order it found them
Unsorted(issues) == issues

RECURSIVE SortedBySeverity(_)
SortedBySeverity(issues) ==
    IF issues = <<>> THEN <<>>
    ELSE InsertByKey(SortedBySeverity(SubSeq(issues, 1, Len(issues) - 1)),
                     issues[Len(issues)])

\* the rest of the final node once get_relevant_practices has returned
FinalUpdate(st, issues, relevant_practices) ==
    LET keyless == {i \in 1..Len(issues) : ~SeverityKey(issues[i]).ok} IN
    IF ~relevant_practices.ok THEN relevant_practices
    ELSE IF keyless # {}
    THEN Raise(SeverityKey(issues[CHOOSE i \in keyless : \A j \in keyless : i <= j]).err)
    ELSE Ok([st EXCEPT
                !.issues = SortedBySeverity(issues),
                !.recommendations =
                    [i \in 1..Len(relevant_practices.val) |->
                        Recommendation(relevant_practices.val[i])],
                !.current_step = "review_complete"])

final_reviewer_agent(st, vs, answers) ==
    FinalUpdate(st, st.issues, get_relevant_practices(st.issues, st.language, vs, answers))

(***************************************************************************)
(* CodeReviewAgents._generate_summary and review_code                      *)
(***************************************************************************)
SeverityNames == {"Critical", "Warning", "Info"}

\* what one pass of the counting loop needs of an issue: its severity must
\* be a key of severity_count
CountedSeverity(issue) ==
    LET severity == dict_get(issue, "severity", JStr("Info")) IN
    IF ~severity.ok THEN severity
    ELSE IF severity.val.jt \in {"array", "object"} THEN Raise("TypeError")
    ELSE IF severity.val.jt = "string" /\ severity.val.s \in SeverityNames
    THEN Ok(severity.val.s)
    ELSE Raise("KeyError")

CountedType(issue) == dict_get(issue, "type", JStr("General")).val

\* a score without the saturation of the penalty and without the floor
UnclampedScore(penalty) == 10 - penalty

\* max(1, 10 - min(penalty, 9))
overall_score(penalty) == Max(1, 10 - Min(penalty, 9))

generate_summary(res) ==
    LET issues == res.issues
        bad == {i \in 1..Len(issues) : ~CountedSeverity(issues[i]).ok}
    IN IF bad # {}
       THEN Raise(CountedSeverity(issues[CHOOSE i \in bad : \A j \in bad : i <= j]).err)
       ELSE LET severity_count ==
                    [name \in SeverityNames |->
                        Cardinality({i \in 1..Len(issues) :
                                        CountedSeverity(issues[i]).val = name})]
                type_count ==
                    [t \in {CountedType(issues[i]) : i \in 1..Len(issues)} |->
                        Cardinality({i \in 1..Len(issues) : CountedType(issues[i]) = t})]
                critical_weight == severity_count["Critical"] * 3
                warning_weight == severity_count["Warning"] * 2
                info_weight == severity_count["Info"] * 1
                penalty == critical_weight + warning_weight + info_weight
            IN Ok([overall_score |-> overall_score(penalty),
                   total_issues |-> Len(issues),
                   severity_breakdown |-> severity_count,
                   category_breakdown |-> type_count,
                   recommendations_count |-> Len(res.recommendations)])

NoExc == "none"
NoResult == [returned |-> FALSE]

\* a review_code without its except clause: the exception reaches the caller
review_code_uncaught(st, err) ==
    IF err # NoExc THEN [returned |-> FALSE, raised |-> err]
    ELSE LET summary == generate_summary(st) IN
         IF ~summary.ok THEN [returned |-> FALSE, raised |-> summary.err]
         ELSE [returned |-> TRUE, success |-> TRUE, language |-> st.language,
               analysis |-> st.analysis_result, issues |-> st.issues,
               recommendations |-> st.recommendations,
               optimized_code |-> st.optimized_code, summary |-> summary.val]

\* what review_code returns once workflow.invoke has returned st or raised err
review_code_result(st, err) ==
    IF err # NoExc THEN [returned |-> TRUE, success |-> FALSE, error |-> err]
    ELSE LET summary == generate_summary(st) IN
         IF ~summary.ok THEN [returned |-> TRUE, success |-> FALSE, error |-> summary.err]
         ELSE [returned |-> TRUE, success |-> TRUE, language |-> st.language,
               analysis |-> st.analysis_result, issues |-> st.issues,
               recommendations |-> st.recommendations,
               optimized_code |-> st.optimized_code, summary |-> summary.val]

(***************************************************************************)
(* Inputs of the exploration.                                              *)
(***************************************************************************)
Line(lex, width) == [lex |-> lex, width |-> width]

\* a node of the tree: nargs is len(node.args.args), nparams the number of all
\* its formal parameters (positional-only, keyword-only, *args, **kwargs too)
AstNode(kind) ==
    [kind |-> kind, name |-> "", lineno |-> 0, nargs |-> 0, nparams |-> 0, nmethods |-> 0,
     doc |-> "None", names |-> <<>>, module |-> ""]

\* "def f(x):\n    return x+1\n" as a.py
PySnippet ==
    [filename |-> <<"a", ".", "p", "y">>,
     code |-> [lines |-> <<Line(<<"def", " ", "f", "(", "x", ")", ":">>, 9),
                           Line(<<" ", "return", " ", "x", "+", "1">>, 14),
                           Line(<<>>, 0)>>,
               tree |-> Parsed(<<AstNode("Module"),
                                 [AstNode("FunctionDef") EXCEPT !.name = "f", !.lineno = 1,
                                                                !.nargs = 1, !.nparams = 1],
                                 AstNode("Return"), AstNode("BinOp")>>)]]

\* "var x = 1; if (x == 1) {}" as a.js
JsSnippet ==
    [filename |-> <<"a", ".", "j", "s">>,
     code |-> [lines |-> <<Line(<<"var", " ", "x", " ", "=", " ", "1", ";", " ", "if", " ",
                                  "(", "x", " ", "==", " ", "1", ")", " ", "{", "}">>, 25)>>,
               tree |-> ParseRaises("SyntaxError")]]

\* a line of 130 characters and a quoted literal with digits, no file name
LongSnippet ==
    [filename |-> <<>>,
     code |-> [lines |-> <<Line(<<"aaa">>, 130),
                           Line(<<"key", " ", "=", " ", "\"", "id42", "\"">>, 11)>>,
               tree |-> Parsed(<<AstNode("Module"), AstNode("Expr"), AstNode("Assign")>>)]]

\* "def f(:\n    pass": a deliberate syntax defect
DefectCode ==
    [lines |-> <<Line(<<"def", " ", "f", "(", ":">>, 7), Line(<<" ", "pass">>, 8)>>,
     tree |-> ParseRaises("SyntaxError")]

\* "-" * 20000 + "1": nested too deep for the parser
DeepCode == [lines |-> <<Line(<<"-", "1">>, 20001)>>, tree |-> ParseRaises("MemoryError")]

DefectSnippet == [filename |-> <<"a", ".", "p", "y">>, code |-> DefectCode]
DeepSnippet == [filename |-> <<"a", ".", "p", "y">>, code |-> DeepCode]

Snippets == {PySnippet, JsSnippet, LongSnippet, DefectSnippet, DeepSnippet}

\* the issue type each enrichment node asks the model for
PromptType(node) ==
    CASE node = "quality_checker" -> "Code Quality"
      [] node = "security_reviewer" -> "Security"
      [] node = "performance_optimizer" -> "Performance"
      [] node = "documentation_generator" -> "Documentation"

\* issue dicts as a model may phrase them
NoTypeIssue ==
    JObj(<<"severity", "message">>, [severity |-> JStr("Info"), message |-> JStr("untyped")])
NoSeverityIssue(type) ==
    JObj(<<"type", "message">>, [type |-> JStr(type), message |-> JStr("unranked")])

Answer(field, value) == JsonText(JObj(<<field>>, (field :> value)))

\* answers that follow the schema of the prompt
SchemaAnswers(node) ==
    LET f == IssueField(node)
        t == PromptType(node)
    IN {Answer(f, JArr(<<Issue(t, "Critical", 1, "grave")>>)),
        Answer(f, JArr(<<NoSeverityIssue(t), Issue(t, "Warning", 2, "minor")>>)),
        IF node = "performance_optimizer"
        THEN JsonText(JObj(<<f, "optimized_code">>,
                           (f :> JArr(<<>>)) @@ ("optimized_code" :> JStr("faster"))))
        ELSE Answer(f, JArr(<<>>))}

\* answers whose issue list is not a list of issue dicts
MalformedAnswers(node) ==
    LET f == IssueField(node) IN
    {JsonText(JArr(<<>>)),
     Answer(f, JStr("ab")),
     Answer(f, JNum(7)),
     Answer(f, JObj(<<"k">>, [k |-> JNum(1)])),
     Answer(f, JArr(<<JNum(1)>>))}
    \cup IF node = "performance_optimizer"
         THEN {JsonText(JObj(<<f, "optimized_code">>,
                             (f :> EmptyDict) @@ ("optimized_code" :> JStr("faster"))))}
         ELSE {}

\* answers with issue dicts outside the schema
OffSchemaAnswers(node) ==
    LET f == IssueField(node)
        t == PromptType(node)
    IN {Answer(f, JArr(<<NoTypeIssue>>)),
        Answer(f, JArr(<<Issue(t, "High", 3, "odd rank")>>))}
       \cup IF node = "quality_checker"
            THEN {Answer(f, JArr(<<Issue(t, "Info", 1, "")>>))}
            ELSE {}

LlmOutcomes(node) ==
    {LlmRaises, LlmReturns(ProseText)}
    \cup {LlmReturns(a) : a \in SchemaAnswers(node) \cup MalformedAnswers(node)
                                \cup OffSchemaAnswers(node)}

\* the persisted index: six seed practices and a custom one repeating a content
SeedStore ==
    Store(<<Document("c1", "code_quality", "t1", "general"),
            Document("c2", "code_quality", "t2", "general"),
            Document("c3", "python_best_practices", "t3", "python"),
            Document("c4", "javascript_best_practices", "t4", "javascript"),
            Document("c5", "security", "t5", "general"),
            Document("c6", "performance", "t6", "general"),
            Document("c1", "custom", "t7", "general")>>)

\* k consecutive documents of the index, from position i on
Window(docs, i, k) ==
    [j \in 1..Min(k, Len(docs)) |-> docs[((i + j - 2) % Len(docs)) + 1]]

\* the answers of similarity_search(query, k) that are explored
FaissAnswers(vs, k) ==
    IF ~vs.loaded THEN {FaissRaises}
    ELSE {FaissRaises}
         \cup {FaissReturns(Window(vs.docs, i, k)) : i \in {n \in 1..Len(vs.docs) : n % k = 1}}

(***************************************************************************)
(* One review_code call on the orchestrator.                               *)
(***************************************************************************)
\* the callers of add_custom_practice and the sessions of app.py, each session
\* holding a RAGSystem of its own over the one Config.VECTOR_DB_PATH
Adders == {"w1", "w2"}
Sessions == {"s1", "s2"}

\* the Document add_custom_practice builds from its arguments
CustomPractice(w) == Document("practice of " \o w, "custom", w, "general")

\* the files under Config.VECTOR_DB_PATH: the documents last saved, whether the
\* files are those of one save, the calls inside save_local, and whether two
\* of them have been inside it together since the files were last quiet
\* path: whether Config.VECTOR_DB_PATH is absent, a directory without index
\* files, or a directory with them
SavedIndex(docs) ==
    [docs |-> docs, intact |-> TRUE, writers |-> {}, raced |-> FALSE, path |-> "index"]

\* a session whose RAGSystem is constructed
Initialized == [pc |-> "ready", found |-> "index", built |-> FALSE]

NoCall == [made |-> FALSE]

NotAdding == [pc |-> "none", session |-> "none", ret |-> "none"]

KnowledgeBaseIdle ==
    /\ saved = SavedIndex(SeedStore.docs)
    /\ stores = [c \in Sessions |-> SeedStore]
    /\ adds = [w \in Adders |-> NotAdding]
    /\ inits = [c \in Sessions |-> Initialized]
    /\ reqs = <<>>
    /\ call = NoCall

NotCalled == [called |-> FALSE]
NoState == [empty |-> TRUE]
NoSummary == [called |-> FALSE]

Init ==
    /\ pc = "idle"
    /\ state = NoState
    /\ before = NoState
    /\ exc = NoExc
    /\ result = NoResult
    /\ vector_store = SeedStore
    /\ llm_log = [n \in EnrichmentNodes |-> NotCalled]
    /\ ran = [n \in Range(Nodes) |-> 0]
    /\ faiss_log = <<>>
    /\ summary_arg = <<>>
    /\ summary_ret = NoSummary
    /\ KnowledgeBaseIdle

\* review_code up to workflow.invoke(initial_state)
ReviewCode ==
    /\ pc = "idle"
    /\ \E input \in Snippets :
         state' = InitialState(input.code, input.filename)
    /\ pc' = EntryPoint
    /\ UNCHANGED <<before, exc, result, vector_store, llm_log, ran, faiss_log,
                   summary_arg, summary_ret, saved, stores, adds, inits, reqs, call>>

Analyzer ==
    /\ pc = "analyzer"
    /\ before' = state
    /\ ran' = [ran EXCEPT !["analyzer"] = @ + 1]
    /\ \E out \in {analyzer_agent(state)} :
         IF out.ok
         THEN /\ state' = out.val
              /\ exc' = NoExc
              /\ pc' = Edge("analyzer")
         ELSE /\ state' = state
              /\ exc' = out.err
              /\ pc' = "except"
    /\ UNCHANGED << result, vector_store, llm_log, faiss_log, summary_arg, summary_ret, saved, stores, adds, inits, reqs, call>>

QualityChecker ==
    /\ pc = "quality_checker"
    /\ \E llm \in LlmOutcomes("quality_checker") :
         /\ state' = quality_checker_agent(state, llm)
         /\ llm_log' = [llm_log EXCEPT !["quality_checker"] = llm]
    /\ before' = state
    /\ ran' = [ran EXCEPT !["quality_checker"] = @ + 1]
    /\ pc' = Edge("quality_checker")
    /\ UNCHANGED <<exc, result, vector_store, faiss_log, summary_arg, summary_ret, saved, stores, adds, inits, reqs, call>>

\* the searches for the prompt context return [] on any failure and feed the prompt only
SecurityReviewer ==
    /\ pc = "security_reviewer"
    /\ \E llm \in LlmOutcomes("security_reviewer") :
         /\ state' = security_reviewer_agent(state, llm)
         /\ llm_log' = [llm_log EXCEPT !["security_reviewer"] = llm]
    /\ before' = state
    /\ ran' = [ran EXCEPT !["security_reviewer"] = @ + 1]
    /\ pc' = Edge("security_reviewer")
    /\ UNCHANGED <<exc, result, vector_store, faiss_log, summary_arg, summary_ret, saved, stores, adds, inits, reqs, call>>

PerformanceOptimizer ==
    /\ pc = "performance_optimizer"
    /\ \E llm \in LlmOutcomes("performance_optimizer") :
         /\ state' = performance_optimizer_agent(state, llm)
         /\ llm_log' = [llm_log EXCEPT !["performance_optimizer"] = llm]
    /\ before' = state
    /\ ran' = [ran EXCEPT !["performance_optimizer"] = @ + 1]
    /\ pc' = Edge("performance_optimizer")
    /\ UNCHANGED <<exc, result, vector_store, faiss_log, summary_arg, summary_ret, saved, stores, adds, inits, reqs, call>>

DocumentationGenerator ==
    /\ pc = "documentation_generator"
    /\ \E llm \in LlmOutcomes("documentation_generator") :
         /\ state' = documentation_generator_agent(state, llm)
         /\ llm_log' = [llm_log EXCEPT !["documentation_generator"] = llm]
    /\ before' = state
    /\ ran' = [ran EXCEPT !["documentation_generator"] = @ + 1]
    /\ pc' = Edge("documentation_generator")
    /\ UNCHANGED <<exc, result, vector_store, faiss_log, summary_arg, summary_ret, saved, stores, adds, inits, reqs, call>>

\* the final node under one choice of what similarity_search answers per issue
FinalNode(answers) ==
    \E out \in {final_reviewer_agent(state, vector_store, answers)} :
        /\ before' = state
        /\ ran' = [ran EXCEPT !["final_reviewer"] = @ + 1]
        /\ IF out.ok
           THEN /\ state' = out.val
                /\ exc' = NoExc
                /\ pc' = Edge("final_reviewer")
                /\ faiss_log' = [i \in 1..Len(state.issues) |->
                                    search_knowledge(vector_store, answers[i])]
           ELSE /\ state' = state
                /\ exc' = out.err
                /\ pc' = "except"
                /\ faiss_log' = <<>>
        /\ UNCHANGED <<result, vector_store, llm_log, summary_arg, summary_ret, saved, stores, adds, inits, reqs, call>>

\* within a whole run the index answers every query of the run alike
FinalReviewer ==
    /\ pc = "final_reviewer"
    /\ \E a \in FaissAnswers(vector_store, PracticesPerIssue) :
         FinalNode([i \in 1..Len(state.issues) |-> a])

\* review_code from the return of workflow.invoke to its own return
ReviewReturn ==
    /\ pc \in {"END", "except"}
    /\ result' = review_code_result(state, exc)
    /\ pc' = "done"
    /\ UNCHANGED <<state, before, exc, vector_store, llm_log, ran, faiss_log,
                   summary_arg, summary_ret, saved, stores, adds, inits, reqs, call>>

Next ==
    \/ ReviewCode
    \/ Analyzer
    \/ QualityChecker
    \/ SecurityReviewer
    \/ PerformanceOptimizer
    \/ DocumentationGenerator
    \/ FinalReviewer
    \/ ReviewReturn

Spec == Init /\ [][Next]_vars

(***************************************************************************)
(* The final node alone, on every short issue list, with an answer of the  *)
(* index chosen per issue.                                                 *)
(***************************************************************************)
BoundedSeq(S, n) == UNION {[1..m -> S] : m \in 0..n}

FinalPool ==
    {Issue("Security", "Critical", 1, "grave"),
     Issue("Code Quality", "Warning", 2, "minor"),
     Issue("Best Practices", "Info", 3, "hint"),
     NoSeverityIssue("Documentation"),
     Issue("Performance", "High", 4, "odd rank")}

InitFinal ==
    /\ pc = "final_reviewer"
    /\ \E issues \in BoundedSeq(FinalPool, MaxIssues) :
         state = [analyzer_agent(InitialState(PySnippet.code, PySnippet.filename)).val
                     EXCEPT !.issues = issues, !.current_step = "documentation_complete"]
    /\ before = NoState
    /\ exc = NoExc
    /\ result = NoResult
    /\ vector_store = SeedStore
    /\ llm_log = [n \in EnrichmentNodes |-> NotCalled]
    /\ ran = [n \in Range(Nodes) |-> 0]
    /\ faiss_log = <<>>
    /\ summary_arg = <<>>
    /\ summary_ret = NoSummary
    /\ KnowledgeBaseIdle

FinalReviewerDirect ==
    /\ pc = "final_reviewer"
    /\ \E answers \in [1..Len(state.issues) -> FaissAnswers(vector_store, PracticesPerIssue)] :
         FinalNode(answers)

NextFinal == FinalReviewerDirect

SpecFinal == InitFinal /\ [][NextFinal]_vars

(***************************************************************************)
(* _generate_summary alone, on every short issue list.                     *)
(***************************************************************************)
MaxSummaryIssues == 4

SummaryPool ==
    {Issue("Security", "Critical", 1, "grave"),
     Issue("Code Quality", "Warning", 2, "minor"),
     Issue("Best Practices", "Info", 3, "hint"),
     NoSeverityIssue("Documentation"),
     Issue("Performance", "High", 4, "odd rank")}

InitSummary ==
    /\ pc = "summary"
    /\ summary_arg \in BoundedSeq(SummaryPool, MaxSummaryIssues)
    /\ summary_ret = NoSummary
    /\ state = NoState
    /\ before = NoState
    /\ exc = NoExc
    /\ result = NoResult
    /\ vector_store = SeedStore
    /\ llm_log = [n \in EnrichmentNodes |-> NotCalled]
    /\ ran = [n \in Range(Nodes) |-> 0]
    /\ faiss_log = <<>>
    /\ KnowledgeBaseIdle

GenerateSummary ==
    /\ pc = "summary"
    /\ summary_ret' =
           [called |-> TRUE,
            out |-> generate_summary([issues |-> summary_arg, recommendations |-> <<>>])]
    /\ pc' = "summarized"
    /\ UNCHANGED <<state, before, exc, result, vector_store, llm_log, ran, faiss_log,
                   summary_arg, saved, stores, adds, inits, reqs, call>>

NextSummary == GenerateSummary

SpecSummary == InitSummary /\ [][NextSummary]_vars

(***************************************************************************)
(* The analyzer node alone, on a collection of texts under each file name. *)
(***************************************************************************)
Filenames ==
    {<<>>,
     <<"a", ".", "p", "y">>,
     <<"a", ".", "j", "s">>,
     <<"a", ".", "j", "s", "x">>,
     <<"a", ".", "t", "s">>,
     <<"a", ".", "t", "s", "x">>,
     <<"a", ".", "j", "a", "v", "a">>,
     <<"n", ".", "t", "x", "t">>}

\* the empty text
EmptyCode == [lines |-> <<Line(<<>>, 0)>>, tree |-> Parsed(<<AstNode("Module")>>)]

\* "hello world": no keyword of any language
PlainCode ==
    [lines |-> <<Line(<<"hello", " ", "world">>, 11)>>, tree |-> ParseRaises("SyntaxError")]

\* "x = '\udc80'": a lone surrogate, which ast.parse cannot encode
SurrogateCode ==
    [lines |-> <<Line(<<"x", " ", "=", " ", "'", "\\udc80", "'">>, 7)>>,
     tree |-> ParseRaises("UnicodeEncodeError")]

\* "if (x === 1 && y !== 2) {}": strict operators only
StrictCode ==
    [lines |-> <<Line(<<"if", " ", "(", "x", " ", "===", " ", "1", " ", "&&", " ", "y", " ",
                        "!==", " ", "2", ")", " ", "{", "}">>, 26)>>,
     tree |-> ParseRaises("SyntaxError")]

\* "if (x !== 1) {}": the strict inequality alone
StrictNotEqualCode ==
    [lines |-> <<Line(<<"if", " ", "(", "x", " ", "!==", " ", "1", ")", " ", "{", "}">>, 16)>>,
     tree |-> ParseRaises("SyntaxError")]

\* "let y = 2;\nif (x == 1 && y === 2) {}": a loose and a strict operator on line 2
MixedEqualityCode ==
    [lines |-> <<Line(<<"let", " ", "y", " ", "=", " ", "2", ";">>, 10),
                 Line(<<"if", " ", "(", "x", " ", "==", " ", "1", " ", "&&", " ", "y", " ",
                        "===", " ", "2", ")", " ", "{", "}">>, 25)>>,
     tree |-> ParseRaises("SyntaxError")]

\* "function g(a) {\n  var variable = a;\n}": var as a word and inside a word
FunctionCode ==
    [lines |-> <<Line(<<"function", " ", "g", "(", "a", ")", " ", "{">>, 15),
                 Line(<<" ", "var", " ", "variable", " ", "=", " ", "a", ";">>, 19),
                 Line(<<"}">>, 1)>>,
     tree |-> ParseRaises("SyntaxError")]

\* one line of 130 'a' characters
OnlyLongCode ==
    [lines |-> <<Line(<<"aaa">>, 130)>>,
     tree |-> Parsed(<<AstNode("Module"), AstNode("Expr"), AstNode("Name")>>)]

\* lines of 120, 121 and 130 characters around a short one
WidthCode ==
    [lines |-> <<Line(<<"aaa">>, 120), Line(<<"bbb">>, 121), Line(<<"c">>, 1),
                 Line(<<"aaa">>, 130)>>,
     tree |-> Parsed(<<AstNode("Module"), AstNode("Expr"), AstNode("Expr"), AstNode("Expr"),
                       AstNode("Expr")>>)]

\* "public class A {\n  public int f(int x) { if (x == 1) { return x; } }\n}"
JavaCode ==
    [lines |-> <<Line(<<"public", " ", "class", " ", "A", " ", "{">>, 16),
                 Line(<<" ", "public", " ", "int", " ", "f", "(", "int", " ", "x", ")", " ",
                        "{", " ", "if", " ", "(", "x", " ", "==", " ", "1", ")", " ", "{", " ",
                        "return", " ", "x", ";", " ", "}", " ", "}">>, 51),
                 Line(<<"}">>, 1)>>,
     tree |-> ParseRaises("SyntaxError")]

\* import os
\* from a import b
\* async def g(a, *, b):
\*     async for x in a:
\*         if x: pass
\* def h(a, *, b):
\*     try: pass
\*     except: pass
\*     while a: pass
\*     for i in a: pass
\* class C:
\*     def m(self): "doc"
ControlFlowCode ==
    [lines |-> <<Line(<<"import", " ", "os">>, 9),
                 Line(<<"from", " ", "a", " ", "import", " ", "b">>, 15),
                 Line(<<"async", " ", "def", " ", "g", "(", "a", ",", " ", "*", ",", " ", "b",
                        ")", ":">>, 21),
                 Line(<<" ", "async", " ", "for", " ", "x", " ", "in", " ", "a", ":">>, 21),
                 Line(<<" ", "if", " ", "x", ":", " ", "pass">>, 18),
                 Line(<<"def", " ", "h", "(", "a", ",", " ", "*", ",", " ", "b", ")", ":">>, 15),
                 Line(<<" ", "try", ":", " ", "pass">>, 13),
                 Line(<<" ", "except", ":", " ", "pass">>, 16),
                 Line(<<" ", "while", " ", "a", ":", " ", "pass">>, 17),
                 Line(<<" ", "for", " ", "i", " ", "in", " ", "a", ":", " ", "pass">>, 20),
                 Line(<<"class", " ", "C", ":">>, 8),
                 Line(<<" ", "def", " ", "m", "(", "self", ")", ":", " ", "\"", "doc", "\"">>, 22)>>,
     tree |-> Parsed(<<AstNode("Module"),
                       [AstNode("Import") EXCEPT !.names = <<"os">>],
                       [AstNode("ImportFrom") EXCEPT !.module = "a"],
                       [AstNode("AsyncFunctionDef") EXCEPT !.name = "g", !.lineno = 3,
                                                           !.nargs = 1, !.nparams = 2],
                       [AstNode("FunctionDef") EXCEPT !.name = "h", !.lineno = 6,
                                                      !.nargs = 1, !.nparams = 2],
                       [AstNode("ClassDef") EXCEPT !.name = "C", !.lineno = 11, !.nmethods = 1],
                       AstNode("AsyncFor"), AstNode("Try"), AstNode("While"), AstNode("For"),
                       [AstNode("FunctionDef") EXCEPT !.name = "m", !.lineno = 12,
                                                      !.nargs = 1, !.nparams = 1, !.doc = "doc"],
                       AstNode("If"), AstNode("ExceptHandler")>>)]

\* "try:\n    pass\nexcept:\n    pass\ntry:\n    pass\nexcept :\n    pass"
BareExceptCode ==
    [lines |-> <<Line(<<"try", ":">>, 4),
                 Line(<<" ", "pass">>, 8),
                 Line(<<"except", ":">>, 7),
                 Line(<<" ", "pass">>, 8),
                 Line(<<"try", ":">>, 4),
                 Line(<<" ", "pass">>, 8),
                 Line(<<"except", " ", ":">>, 8),
                 Line(<<" ", "pass">>, 8)>>,
     tree |-> Parsed(<<AstNode("Module"), AstNode("Try"), AstNode("Try"), AstNode("Pass"),
                       AstNode("ExceptHandler"), AstNode("Pass"), AstNode("ExceptHandler"),
                       AstNode("Pass"), AstNode("Pass")>>)]

\* "switch (x) { case 1: break; }\n": the text ends in a newline
SwitchCode ==
    [lines |-> <<Line(<<"switch", " ", "(", "x", ")", " ", "{", " ", "case", " ", "1", ":", " ",
                        "break", ";", " ", "}">>, 29),
                 Line(<<>>, 0)>>,
     tree |-> ParseRaises("SyntaxError")]

Codes ==
    {PySnippet.code, JsSnippet.code, LongSnippet.code, EmptyCode, PlainCode, DefectCode,
     DeepCode, SurrogateCode, StrictCode, StrictNotEqualCode, MixedEqualityCode,
     FunctionCode, OnlyLongCode, WidthCode, JavaCode, ControlFlowCode, BareExceptCode,
     SwitchCode}

InitAnalyze ==
    /\ pc = "analyzer"
    /\ \E code \in Codes, filename \in Filenames : state = InitialState(code, filename)
    /\ before = NoState
    /\ exc = NoExc
    /\ result = NoResult
    /\ vector_store = SeedStore
    /\ llm_log = [n \in EnrichmentNodes |-> NotCalled]
    /\ ran = [n \in Range(Nodes) |-> 0]
    /\ faiss_log = <<>>
    /\ summary_arg = <<>>
    /\ summary_ret = NoSummary
    /\ KnowledgeBaseIdle

NextAnalyze == Analyzer

SpecAnalyze == InitAnalyze /\ [][NextAnalyze]_vars

(***************************************************************************)
(* CodeAnalyzer.analyze_code_structure called on every text under every    *)
(* language name, 'unknown' included.                                      *)
(***************************************************************************)
LanguageNames == {"python", "javascript", "typescript", "java", "unknown"}

InitStructure ==
    /\ pc = "calling"
    /\ state = NoState
    /\ before = NoState
    /\ exc = NoExc
    /\ result = NoResult
    /\ vector_store = SeedStore
    /\ llm_log = [n \in EnrichmentNodes |-> NotCalled]
    /\ ran = [n \in Range(Nodes) |-> 0]
    /\ faiss_log = <<>>
    /\ summary_arg = <<>>
    /\ summary_ret = NoSummary
    /\ saved = SavedIndex(SeedStore.docs)
    /\ stores = [c \in Sessions |-> SeedStore]
    /\ adds = [w \in Adders |-> NotAdding]
    /\ inits = [c \in Sessions |-> Initialized]
    /\ reqs = <<>>
    /\ \E code \in Codes, language \in LanguageNames :
         call = [made |-> FALSE, code |-> code, language |-> language]

AnalyzeCodeStructure ==
    /\ ~call.made
    /\ call' = [made |-> TRUE, code |-> call.code, language |-> call.language,
                ret |-> analyze_code_structure(call.code, call.language)]
    /\ UNCHANGED <<saved, stores, adds, inits, reqs, pc, state, before, exc, result,
                   vector_store, llm_log, ran, faiss_log, summary_arg, summary_ret>>

NextStructure == AnalyzeCodeStructure

SpecStructure == InitStructure /\ [][NextStructure]_vars

(***************************************************************************)
(* RAGSystem.add_custom_practice called from several places at once.  A    *)
(* call is bound to the session whose RAGSystem it uses; calls of one      *)
(* session share its vector_store, calls of different sessions share only  *)
(* the saved files.  save_local takes time: a call enters it and leaves    *)
(* it in separate steps, and the source takes no lock around it.           *)
(***************************************************************************)
InitAdd ==
    /\ pc = "adding"
    /\ state = NoState
    /\ before = NoState
    /\ exc = NoExc
    /\ result = NoResult
    /\ vector_store = SeedStore
    /\ llm_log = [n \in EnrichmentNodes |-> NotCalled]
    /\ ran = [n \in Range(Nodes) |-> 0]
    /\ faiss_log = <<>>
    /\ summary_arg = <<>>
    /\ summary_ret = NoSummary
    /\ saved = SavedIndex(SeedStore.docs)
    /\ stores \in [Sessions -> {SeedStore, NoStore}]
    /\ adds \in [Adders -> {[pc |-> "called", session |-> c, ret |-> "none"] : c \in Sessions}]
    /\ inits = [c \in Sessions |-> Initialized]
    /\ reqs = <<>>
    /\ call = NoCall

Returned(w, value) == [adds EXCEPT ![w].pc = "returned", ![w].ret = value]

\* `if self.vector_store and split_docs` is false: return False
AddWithoutStore(w) ==
    /\ adds[w].pc = "called"
    /\ ~stores[adds[w].session].loaded
    /\ adds' = Returned(w, FALSE)
    /\ UNCHANGED <<saved, stores, inits, reqs, call, review_vars>>

\* vector_store.add_documents(split_docs): the session's index grows in memory
AddDocuments(w) ==
    /\ adds[w].pc = "called"
    /\ stores[adds[w].session].loaded
    /\ stores' = [stores EXCEPT ![adds[w].session] =
                     Store(@.docs \o <<CustomPractice(w)>>)]
    /\ adds' = [adds EXCEPT ![w].pc = "added"]
    /\ UNCHANGED <<saved, inits, reqs, call, review_vars>>

\* add_documents raises (the embedding call fails): except, return False
AddDocumentsRaises(w) ==
    /\ adds[w].pc = "called"
    /\ stores[adds[w].session].loaded
    /\ adds' = Returned(w, FALSE)
    /\ UNCHANGED <<saved, stores, inits, reqs, call, review_vars>>

\* vector_store.save_local(Config.VECTOR_DB_PATH) starts writing the files
SaveLocalBegins(w) ==
    /\ adds[w].pc = "added"
    /\ saved' = [saved EXCEPT !.writers = @ \cup {w},
                              !.raced = saved.raced \/ saved.writers # {}]
    /\ adds' = [adds EXCEPT ![w].pc = "saving"]
    /\ UNCHANGED <<stores, inits, reqs, call, review_vars>>

\* save_local raises before it writes (the directory cannot be written):
\* except, return False, with the document already in the session's index
SaveLocalRaises(w) ==
    /\ adds[w].pc = "added"
    /\ adds' = Returned(w, FALSE)
    /\ UNCHANGED <<saved, stores, inits, reqs, call, review_vars>>

\* save_local is through: the files hold the session's index as it is now;
\* when another call wrote the same files meanwhile they hold this index or a
\* mix of the two writes.  Then return True
SaveLocalEnds(w) ==
    /\ adds[w].pc = "saving"
    /\ \E intact \in (IF saved.raced THEN {TRUE, FALSE} ELSE {TRUE}) :
         saved' = [docs |-> stores[adds[w].session].docs,
                   intact |-> intact,
                   writers |-> saved.writers \ {w},
                   raced |-> saved.raced /\ saved.writers # {w},
                   path |-> "index"]
    /\ adds' = Returned(w, TRUE)
    /\ UNCHANGED <<stores, inits, reqs, call, review_vars>>

add_custom_practice(w) ==
    \/ AddWithoutStore(w)
    \/ AddDocuments(w)
    \/ AddDocumentsRaises(w)
    \/ SaveLocalBegins(w)
    \/ SaveLocalRaises(w)
    \/ SaveLocalEnds(w)

NextAdd == \E w \in Adders : add_custom_practice(w)

SpecAdd == InitAdd /\ [][NextAdd]_vars

(***************************************************************************)
(* RAGSystem.__init__ in two sessions that start together, with            *)
(* Config.VECTOR_DB_PATH absent, an empty directory (run.py creates it),   *)
(* or holding a saved index.                                               *)
(***************************************************************************)
\* the documents _create_knowledge_base makes of _get_coding_best_practices
SeedDocuments == SubSeq(SeedStore.docs, 1, 6)

NoSavedIndex(path) ==
    [docs |-> <<>>, intact |-> TRUE, writers |-> {}, raced |-> FALSE, path |-> path]

InitBoot ==
    /\ pc = "booting"
    /\ state = NoState
    /\ before = NoState
    /\ exc = NoExc
    /\ result = NoResult
    /\ vector_store = SeedStore
    /\ llm_log = [n \in EnrichmentNodes |-> NotCalled]
    /\ ran = [n \in Range(Nodes) |-> 0]
    /\ faiss_log = <<>>
    /\ summary_arg = <<>>
    /\ summary_ret = NoSummary
    /\ saved \in {NoSavedIndex("absent"), NoSavedIndex("empty"),
                  SavedIndex(SeedStore.docs), SavedIndex(SeedDocuments)}
    /\ stores = [c \in Sessions |-> NoStore]
    /\ adds = [w \in Adders |-> NotAdding]
    /\ inits = [c \in Sessions |-> [pc |-> "init", found |-> "none", built |-> FALSE]]
    /\ reqs = <<>>
    /\ call = NoCall

\* if os.path.exists(Config.VECTOR_DB_PATH)
PathExists(c) ==
    /\ inits[c].pc = "init"
    /\ inits' = [inits EXCEPT ![c].found = saved.path,
                              ![c].pc = IF saved.path = "absent" THEN "creating" ELSE "loading"]
    /\ UNCHANGED <<saved, stores, adds, reqs, call, review_vars>>

\* FAISS.load_local reads the saved index
LoadLocal(c) ==
    /\ inits[c].pc = "loading"
    /\ saved.path = "index"
    /\ saved.intact
    /\ stores' = [stores EXCEPT ![c] = Store(saved.docs)]
    /\ inits' = [inits EXCEPT ![c].pc = "ready"]
    /\ UNCHANGED <<saved, adds, reqs, call, review_vars>>

\* FAISS.load_local raises: the directory holds no index files, or files that
\* are being written or are a mix of two writes; except: _create_knowledge_base
LoadLocalRaises(c) ==
    /\ inits[c].pc = "loading"
    /\ saved.path # "index" \/ saved.writers # {} \/ ~saved.intact
    /\ inits' = [inits EXCEPT ![c].pc = "creating"]
    /\ UNCHANGED <<saved, stores, adds, reqs, call, review_vars>>

\* _create_knowledge_base: FAISS.from_documents(split_docs, self.embeddings)
FromDocuments(c) ==
    /\ inits[c].pc = "creating"
    /\ stores' = [stores EXCEPT ![c] = Store(SeedDocuments)]
    /\ inits' = [inits EXCEPT ![c].pc = "built", ![c].built = TRUE]
    /\ UNCHANGED <<saved, adds, reqs, call, review_vars>>

\* os.makedirs(Config.VECTOR_DB_PATH, exist_ok=True), and save_local starts
\* writing the files
CreateSaveBegins(c) ==
    /\ inits[c].pc = "built"
    /\ saved' = [saved EXCEPT !.writers = @ \cup {c},
                              !.raced = saved.raced \/ saved.writers # {},
                              !.path = IF @ = "absent" THEN "empty" ELSE @]
    /\ inits' = [inits EXCEPT ![c].pc = "saving"]
    /\ UNCHANGED <<stores, adds, reqs, call, review_vars>>

\* save_local is through: the files hold this session's index, or a mix when
\* another session wrote them meanwhile
CreateSaveEnds(c) ==
    /\ inits[c].pc = "saving"
    /\ \E intact \in (IF saved.raced THEN {TRUE, FALSE} ELSE {TRUE}) :
         saved' = [docs |-> stores[c].docs,
                   intact |-> intact,
                   writers |-> saved.writers \ {c},
                   raced |-> saved.raced /\ saved.writers # {c},
                   path |-> "index"]
    /\ inits' = [inits EXCEPT ![c].pc = "ready"]
    /\ UNCHANGED <<stores, adds, reqs, call, review_vars>>

initialize_knowledge_base(c) ==
    \/ PathExists(c)
    \/ LoadLocal(c)
    \/ LoadLocalRaises(c)
    \/ FromDocuments(c)
    \/ CreateSaveBegins(c)
    \/ CreateSaveEnds(c)

NextBoot == \E c \in Sessions : initialize_knowledge_base(c)

SpecBoot == InitBoot /\ [][NextBoot]_vars

(***************************************************************************)
(* Two review_code calls running together on one CodeReviewAgents, their   *)
(* nodes interleaved in every order.                                       *)
(***************************************************************************)
Requests == {"r1", "r2"}

PairSnippets == {PySnippet, JsSnippet, DeepSnippet}

\* what the model answers the nodes of these calls
PairOutcomes(node) ==
    CASE node = "quality_checker" ->
           {LlmRaises,
            LlmReturns(Answer("issues", JArr(<<Issue("Code Quality", "Critical", 1, "grave")>>)))}
      [] node = "security_reviewer" -> {LlmRaises}
      [] node = "performance_optimizer" ->
           {LlmReturns(JsonText(JObj(<<"optimizations", "optimized_code">>,
                                     ("optimizations" :> JArr(<<>>))
                                     @@ ("optimized_code" :> JStr("faster")))))}
      [] node = "documentation_generator" ->
           {LlmReturns(Answer("suggestions",
                              JArr(<<NoSeverityIssue("Documentation"),
                                     Issue("Documentation", "Warning", 2, "minor")>>)))}

\* what the index answers the final node of these calls
PairFaiss ==
    {FaissRaises, FaissReturns(Window(vector_store.docs, 1, PracticesPerIssue))}

NotAsked == [asked |-> FALSE]

\* review_code is entered: nothing of the call exists yet
NewRequest ==
    [pc |-> "idle", input |-> NotAsked, state |-> NoState,
     llm |-> [n \in EnrichmentNodes |-> NotCalled], faiss |-> NotAsked,
     exc |-> NoExc, result |-> NoResult]

InitPair ==
    /\ pc = "serving"
    /\ state = NoState
    /\ before = NoState
    /\ exc = NoExc
    /\ result = NoResult
    /\ vector_store = SeedStore
    /\ llm_log = [n \in EnrichmentNodes |-> NotCalled]
    /\ ran = [n \in Range(Nodes) |-> 0]
    /\ faiss_log = <<>>
    /\ summary_arg = <<>>
    /\ summary_ret = NoSummary
    /\ saved = SavedIndex(SeedStore.docs)
    /\ stores = [c \in Sessions |-> SeedStore]
    /\ adds = [w \in Adders |-> NotAdding]
    /\ inits = [c \in Sessions |-> Initialized]
    /\ reqs = [r \in Requests |-> NewRequest]
    /\ call = NoCall

\* a state of another call handed to the node, for comparison with the
\* source, where each call hands its own state from node to node
StateOfFirstCall(r) ==
    IF reqs["r1"].state # NoState THEN reqs["r1"].state ELSE reqs[r].state

\* the state workflow.invoke hands to the next node of the call
StateOfCall(r) == reqs[r].state

\* the function add_node registered under the name
NodeFunction(node, st, llm) ==
    CASE node = "quality_checker" -> quality_checker_agent(st, llm)
      [] node = "security_reviewer" -> security_reviewer_agent(st, llm)
      [] node = "performance_optimizer" -> performance_optimizer_agent(st, llm)
      [] node = "documentation_generator" -> documentation_generator_agent(st, llm)

PairReviewCode(r) ==
    /\ reqs[r].pc = "idle"
    /\ \E input \in PairSnippets :
         reqs' = [reqs EXCEPT ![r].input = input,
                              ![r].state = InitialState(input.code, input.filename),
                              ![r].pc = EntryPoint]
    /\ UNCHANGED <<saved, stores, adds, inits, call, review_vars>>

PairAnalyzer(r) ==
    /\ reqs[r].pc = "analyzer"
    /\ \E out \in {analyzer_agent(StateOfCall(r))} :
         reqs' = IF out.ok
                 THEN [reqs EXCEPT ![r].state = out.val, ![r].pc = Edge("analyzer")]
                 ELSE [reqs EXCEPT ![r].exc = out.err, ![r].pc = "except"]
    /\ UNCHANGED <<saved, stores, adds, inits, call, review_vars>>

PairEnrichment(r) ==
    /\ reqs[r].pc \in EnrichmentNodes
    /\ \E llm \in PairOutcomes(reqs[r].pc) :
         reqs' = [reqs EXCEPT ![r].state = NodeFunction(reqs[r].pc, StateOfCall(r), llm),
                              ![r].llm[reqs[r].pc] = llm,
                              ![r].pc = Edge(reqs[r].pc)]
    /\ UNCHANGED <<saved, stores, adds, inits, call, review_vars>>

PairFinalReviewer(r) ==
    /\ reqs[r].pc = "final_reviewer"
    /\ \E a \in PairFaiss :
         \E out \in {final_reviewer_agent(StateOfCall(r), vector_store,
                                           [i \in 1..Len(StateOfCall(r).issues) |-> a])} :
             reqs' = IF out.ok
                     THEN [reqs EXCEPT ![r].state = out.val, ![r].faiss = a,
                                       ![r].pc = Edge("final_reviewer")]
                     ELSE [reqs EXCEPT ![r].exc = out.err, ![r].faiss = a,
                                       ![r].pc = "except"]
    /\ UNCHANGED <<saved, stores, adds, inits, call, review_vars>>

PairReviewReturn(r) ==
    /\ reqs[r].pc \in {"END", "except"}
    /\ reqs' = [reqs EXCEPT ![r].result = review_code_result(StateOfCall(r), reqs[r].exc),
                            ![r].pc = "done"]
    /\ UNCHANGED <<saved, stores, adds, inits, call, review_vars>>

NextPair ==
    \E r \in Requests :
        \/ PairReviewCode(r)
        \/ PairAnalyzer(r)
        \/ PairEnrichment(r)
        \/ PairFinalReviewer(r)
        \/ PairReviewReturn(r)

SpecPair == InitPair /\ [][NextPair]_vars

(***************************************************************************)
(* Properties.                                                             *)
(***************************************************************************)
\* the enrichment node that has just returned, if any
JustRan(node) == pc = Edge(node) /\ ran[node] = 1

\* the model call of the node failed, or its text is not JSON
CallFailed(llm) == llm.raised \/ llm.content.src # "json"

\* the text parsed, but not to an object whose issue list is a list of dicts
MalformedOutput(node, llm) ==
    /\ ~CallFailed(llm)
    /\ LET v == llm.content.value IN
       \/ v.jt # "object"
       \/ /\ IssueField(node) \in DOMAIN v.vals
          /\ \/ v.vals[IssueField(node)].jt # "array"
             \/ \E i \in 1..Len(v.vals[IssueField(node)].items) :
                   v.vals[IssueField(node)].items[i].jt # "object"

\* C1: an enrichment node whose model call failed, whose answer did not parse
\* or whose parsed answer is malformed returns the state it was given
\* (issues, optimized_code and current_step included)
C1_FailedStageLeavesState ==
    \A node \in EnrichmentNodes :
        (JustRan(node) /\ (CallFailed(llm_log[node]) \/ MalformedOutput(node, llm_log[node])))
            => state = before

\* the number of positions of s holding x
Count(s, x) == Cardinality({i \in 1..Len(s) : s[i] = x})

\* s and t hold the same items the same number of times
SameItems(s, t) ==
    /\ Len(s) = Len(t)
    /\ \A x \in Range(s) \cup Range(t) : Count(s, x) = Count(t, x)

\* the model call of the node returned an answer in the schema of its prompt
CallSucceeded(node, llm) == ~llm.raised /\ llm.content \in SchemaAnswers(node)

\* the issues a node's answer holds
Contribution(node) ==
    IF CallSucceeded(node, llm_log[node])
    THEN llm_log[node].content.value.vals[IssueField(node)].items
    ELSE <<>>

EnrichmentOrder ==
    <<"quality_checker", "security_reviewer", "performance_optimizer",
      "documentation_generator">>

C3_NoExceptionLeavesANode == exc = NoExc

\* C4: review_code always returns; it returns exactly {success: false, error}
\* when a node or the summary raised, and the full success shape otherwise
C4_ReviewNeverRaises ==
    pc = "done" =>
        /\ result.returned
        /\ IF exc # NoExc \/ ~generate_summary(state).ok
           THEN /\ DOMAIN result = {"returned", "success", "error"}
                /\ ~result.success
           ELSE /\ DOMAIN result = {"returned", "success", "language", "analysis", "issues",
                                    "recommendations", "optimized_code", "summary"}
                /\ result.success

\* C4 witness: a node raised and review_code returned the failure shape
C4_Witness ==
    /\ pc = "done"
    /\ exc = "KeyError"
    /\ result = [returned |-> TRUE, success |-> FALSE, error |-> "KeyError"]

\* where the call stands: before the first node, at the i-th node, or past the last
Position ==
    CASE pc = "idle" -> 0
      [] pc \in Range(Nodes) -> CHOOSE i \in 1..Len(Nodes) : Nodes[i] = pc
      [] OTHER -> Len(Nodes) + 1

\* C5: the nodes run in the one order analyzer, quality, security, performance,
\* documentation, final: when the call stands at a node, each node before it
\* has run exactly once and no other node has run, whatever failed before
C5_FixedOrder ==
    /\ pc \in {"idle", "END", "except", "done"} \cup Range(Nodes)
    /\ \A i \in 1..Len(Nodes) : ran[Nodes[i]] = IF i < Position THEN 1 ELSE 0

\* C5, for the runs an exception cuts short as well: the nodes that have run
\* are the first ones of the order, each once, and a call that came back
\* from the workflow without an exception has run all six
C5_RanInOrder ==
    /\ \E k \in 0..Len(Nodes) :
          \A i \in 1..Len(Nodes) : ran[Nodes[i]] = IF i <= k THEN 1 ELSE 0
    /\ pc \in Range(Nodes) => \A i \in 1..Len(Nodes) : ran[Nodes[i]] = 1 <=> i < Position
    /\ pc = "END" => \A i \in 1..Len(Nodes) : ran[Nodes[i]] = 1

\* C5 witness: a run that reached done although its security call failed
C5_Witness ==
    /\ pc = "done"
    /\ llm_log["security_reviewer"] = LlmRaises
    /\ \A i \in 1..Len(Nodes) : ran[Nodes[i]] = 1

\* Critical 0, Warning 1, Info 2; an absent or any other severity ranks as Info
severityRank(issue) ==
    IF "severity" \notin DOMAIN issue.vals THEN 2
    ELSE IF issue.vals["severity"] = JStr("Critical") THEN 0
    ELSE IF issue.vals["severity"] = JStr("Warning") THEN 1
    ELSE 2

FinalReturned == state.current_step = "review_complete"

\* C6: after the final node the issues are in non-decreasing severity rank
C6_SortedBySeverityRank ==
    FinalReturned =>
        \A i \in 1..(Len(state.issues) - 1) :
            severityRank(state.issues[i]) <= severityRank(state.issues[i + 1])

\* C6 witness: an issue of unknown severity arrived ahead of a Critical one
C6_Witness ==
    /\ FinalReturned
    /\ \E i, j \in 1..Len(before.issues) :
          /\ i < j
          /\ severityRank(before.issues[i]) = 2
          /\ JStr("High") \in Range(before.issues[i].vals)
          /\ severityRank(before.issues[j]) = 0

OfRank(issues, r) == SelectSeq(issues, LAMBDA x : severityRank(x) = r)

\* C7: the final node permutes the issues (none dropped, added or altered)
\* and keeps the arrival order of issues of equal rank
C7_StablePermutation ==
    FinalReturned =>
        /\ SameItems(before.issues, state.issues)
        /\ \A r \in 0..2 : OfRank(before.issues, r) = OfRank(state.issues, r)

\* C7 witness: two different issues of one rank arrived behind a lower-ranked one
C7_Witness ==
    /\ FinalReturned
    /\ Len(before.issues) = 3
    /\ severityRank(before.issues[1]) = 2
    /\ severityRank(before.issues[2]) = 0
    /\ severityRank(before.issues[3]) = 2
    /\ before.issues[1] # before.issues[3]

SummaryReturned == summary_ret.called /\ summary_ret.out.ok

\* C8: the summary of any issue list, severities absent or outside the
\* vocabulary included, has a score in 1..10 that is 10 exactly for the empty list
C8_ScoreForAllInputs ==
    summary_ret.called =>
        /\ summary_ret.out.ok
        /\ summary_ret.out.val.overall_score \in 1..10
        /\ summary_ret.out.val.overall_score = 10 <=> summary_arg = <<>>
        /\ summary_arg = <<>> =>
              summary_ret.out.val.severity_breakdown =
                  [name \in SeverityNames |-> 0]

\* the number of issues whose severity reads as name (an absent one as Info)
countSeverity(issues, name) ==
    Cardinality({i \in 1..Len(issues) :
                    IF "severity" \in DOMAIN issues[i].vals
                    THEN issues[i].vals["severity"] = JStr(name)
                    ELSE name = "Info"})

weightedPenalty(issues) ==
    3 * countSeverity(issues, "Critical") + 2 * countSeverity(issues, "Warning")
    + countSeverity(issues, "Info")

\* C9: whenever a summary is returned its score is 10 - penalty for a penalty
\* below 9 and 1 from 9 on
C9_PenaltySaturates ==
    SummaryReturned =>
        /\ summary_ret.out.val.overall_score >= 1
        /\ summary_ret.out.val.overall_score =
               IF weightedPenalty(summary_arg) < 9 THEN 10 - weightedPenalty(summary_arg)
               ELSE 1

\* C9 witness: a list whose penalty is beyond 9
C9_Witness ==
    /\ SummaryReturned
    /\ weightedPenalty(summary_arg) > 9
    /\ summary_ret.out.val.overall_score = 1

\* the documents of docs whose content is not in seen and not earlier in docs
RECURSIVE FirstOfEach(_, _)
FirstOfEach(docs, seen) ==
    IF docs = <<>> THEN <<>>
    ELSE IF Head(docs).page_content \in seen THEN FirstOfEach(Tail(docs), seen)
    ELSE <<Head(docs)>> \o FirstOfEach(Tail(docs), seen \cup {Head(docs).page_content})

\* C10: the recommendations hold each content once, are at most 5, follow the
\* order of first retrieval, one per retained document; none without issues
C10_Recommendations ==
    FinalReturned =>
        \A kept \in {FirstOfEach(FlattenSeq(faiss_log), {})} :
            LET recs == state.recommendations IN
            /\ Len(recs) <= 5
            /\ \A i, j \in 1..Len(recs) : i # j => recs[i].content # recs[j].content
            /\ Len(recs) = Min(5, Len(kept))
            /\ \A k \in 1..Len(recs) :
                  recs[k] = [category |-> kept[k].metadata.category,
                             title |-> kept[k].metadata.title,
                             content |-> kept[k].page_content,
                             language |-> kept[k].metadata.language]
            /\ before.issues = <<>> => recs = <<>>

\* C10 witness: six different contents were retrieved and five are recommended
C10_Witness ==
    /\ FinalReturned
    /\ Len(FirstOfEach(FlattenSeq(faiss_log), {})) = 6
    /\ Len(state.recommendations) = 5

\* every call has returned
AllAddsReturned == \A w \in Adders : adds[w].pc = "returned"

\* C11: whatever the interleaving of the add_custom_practice calls, no two of
\* them are inside save_local together, the saved files are those of one
\* save, and once every call has returned the saved index holds the document
\* of each call that returned True
C11_AddsAreSerialized ==
    /\ Cardinality(saved.writers) <= 1
    /\ saved.intact
    /\ AllAddsReturned =>
          \A w \in Adders :
              adds[w].ret = TRUE => CustomPractice(w) \in Range(saved.docs)

\* C11, last part alone: calls that never write at the same time still lose
\* a document when they belong to different sessions
C11_NoDocumentLost ==
    (AllAddsReturned /\ saved.intact) =>
        \A w \in Adders :
            adds[w].ret = TRUE => CustomPractice(w) \in Range(saved.docs)

\* the analyzer node has run on a text it took for python that ast.parse rejects
RejectedPython ==
    /\ ran["analyzer"] = 1
    /\ detect_language(before.code, before.filename) = "python"
    /\ ~before.code.tree.parsed

\* C12: on python source that does not parse the analysis raises nothing and
\* returns empty function and class lists, complexity 0 and one diagnostic
C12_AnalyzerNeverRaises ==
    RejectedPython =>
        /\ exc = NoExc
        /\ state.current_step # "start"
        /\ state.analysis_result.functions = <<>>
        /\ state.analysis_result.classes = <<>>
        /\ state.analysis_result.complexity_score = 0
        /\ Len(state.analysis_result.issues) = 1

\* C12, for the texts ast.parse rejects with a SyntaxError only
C12_SyntaxErrorIsRecorded ==
    (RejectedPython /\ before.code.tree.err = "SyntaxError") =>
        /\ exc = NoExc
        /\ state.analysis_result.functions = <<>>
        /\ state.analysis_result.classes = <<>>
        /\ state.analysis_result.complexity_score = 0
        /\ Len(state.analysis_result.issues) = 1

\* the file name names no language of the table and no keyword of any
\* language occurs in the text the analyzer node was given
NoSignal ==
    /\ ran["analyzer"] = 1
    /\ \A i \in 1..Len(Languages) :
          /\ ~ExtensionMatch(before.filename, Languages[i])
          /\ LanguageScore(before.code, Languages[i]) = 0

\* C13: without an extension match and without a keyword score the detected
\* language is the sentinel unknown, and nothing is raised
C13_UnknownWithoutSignal ==
    NoSignal => detect_language(before.code, before.filename) = "unknown"

\* the languages of the table, in its order, that claim the extension of the name
Claimants(filename) ==
    KeepAt(Languages, {i \in 1..Len(Languages) : ExtensionMatch(filename, Languages[i])})

\* C14: a file name ending in an extension of the table decides the language:
\* the first language of the table claiming it, whatever the text holds
C14_ExtensionDecides ==
    (ran["analyzer"] = 1 /\ before.filename # <<>> /\ Claimants(before.filename) # <<>>)
        => /\ \A code \in Codes :
                 detect_language(code, before.filename) = Claimants(before.filename)[1]
           /\ exc = NoExc => state.language = Claimants(before.filename)[1]

\* C14 witness: a text full of javascript keywords in a file called a.py
C14_Witness ==
    /\ ran["analyzer"] = 1
    /\ before.filename = <<"a", ".", "p", "y">>
    /\ before.code = JsSnippet.code
    /\ LanguageScore(before.code, "javascript") > LanguageScore(before.code, "python")
    /\ state.language = "python"

\* the analyzer node has returned
Analyzed == ran["analyzer"] = 1 /\ exc = NoExc /\ state.current_step = "analysis_complete"

\* the positions of the issues of the given type and severity on line i
IssuesOn(issues, type, severity, i) ==
    {k \in 1..Len(issues) :
        /\ issues[k].vals["type"] = JStr(type)
        /\ issues[k].vals["severity"] = JStr(severity)
        /\ issues[k].vals["line"] = JNum(i)}

\* C15: the analysis holds one Code Quality warning for each line longer than
\* the configured maximum, with the number of the line and its length, none
\* for a line within the maximum, and for the text that is one line of 130
\* characters nothing but that warning
C15_LongLines ==
    Analyzed =>
        /\ \A i \in 1..Len(before.code.lines) :
              LET width == before.code.lines[i].width
                  found == IssuesOn(state.issues, "Code Quality", "Warning", i)
              IN IF width > ConfigMaxLineLength
                 THEN /\ Cardinality(found) = 1
                      /\ \A k \in found :
                            state.issues[k].vals["message"] =
                                JStr("line too long (" \o ToString(width)
                                     \o " chars), keep it within 120")
                 ELSE found = {}
        /\ before.code = OnlyLongCode =>
              /\ Len(state.issues) = 1
              /\ IssuesOn(state.issues, "Code Quality", "Warning", 1) = {1}

\* C15 witness: lines of 120, 121 and 130 characters: two warnings, on lines 2 and 4
C15_Witness ==
    /\ Analyzed
    /\ before.code = WidthCode
    /\ IssuesOn(state.issues, "Code Quality", "Warning", 1) = {}
    /\ IssuesOn(state.issues, "Code Quality", "Warning", 2) # {}
    /\ IssuesOn(state.issues, "Code Quality", "Warning", 4) # {}
    /\ Len(state.issues) = 2

\* the positions of the warnings with the given message on line i
WarningsOn(issues, message, i) ==
    {k \in 1..Len(issues) :
        /\ issues[k].vals["severity"] = JStr("Warning")
        /\ issues[k].vals["message"] = JStr(message)
        /\ issues[k].vals["line"] = JNum(i)}

\* the line uses var as a word / the loose equality operator
UsesVar(line) == \E k \in 1..Len(line.lex) : line.lex[k] = "var"
UsesLooseEquality(line) == \E k \in 1..Len(line.lex) : line.lex[k] = "=="

\* C16: in javascript and typescript each line using var gets one warning and
\* each line using == gets one warning, with the number of the line; lines
\* using neither, the strict === and !== included, get none of the two
C16_VarAndLooseEquality ==
    (Analyzed /\ state.language \in {"javascript", "typescript"}) =>
        \A i \in 1..Len(before.code.lines) :
            /\ Cardinality(WarningsOn(state.issues, "use let or const instead of var", i))
                   = IF UsesVar(before.code.lines[i]) THEN 1 ELSE 0
            /\ Cardinality(WarningsOn(state.issues, "use === instead of ==", i))
                   = IF UsesLooseEquality(before.code.lines[i]) THEN 1 ELSE 0

\* C16, the example: 'var x = 1; if (x == 1) {}' as a.js gets both warnings
C16_ExampleHasBothWarnings ==
    (Analyzed /\ before.code = JsSnippet.code /\ before.filename = JsSnippet.filename) =>
        /\ state.language = "javascript"
        /\ Cardinality(WarningsOn(state.issues, "use let or const instead of var", 1)) = 1
        /\ Cardinality(WarningsOn(state.issues, "use === instead of ==", 1)) = 1

\* the node kinds of a conditional, a loop, an exception handling statement
\* and a function definition in Python's syntax tree
BranchingKinds == {"If", "For", "AsyncFor", "While", "Try", "TryStar"}
DefinitionKinds == {"FunctionDef", "AsyncFunctionDef"}

\* the syntax tree the analyzer node walked
WalkedTree == before.code.tree.nodes

\* C17: on a text that parses as python the complexity score is the number of
\* conditionals, loops and exception handling statements of the tree, and the
\* function facts are one per function definition, with its line and the
\* number of its formal parameters; "def f(x):\n    return x+1\n" as a.py
\* gives python, the one fact {f, line 1, 1 argument, no docstring}, score 0
C17_FactsOfTheTree ==
    (Analyzed /\ state.language = "python" /\ before.code.tree.parsed) =>
        /\ state.analysis_result.complexity_score =
               Cardinality({i \in 1..Len(WalkedTree) : WalkedTree[i].kind \in BranchingKinds})
        /\ state.analysis_result.functions =
               KeepAt([i \in 1..Len(WalkedTree) |->
                          [name |-> WalkedTree[i].name, line |-> WalkedTree[i].lineno,
                           args |-> WalkedTree[i].nparams, docstring |-> WalkedTree[i].doc]],
                      {i \in 1..Len(WalkedTree) : WalkedTree[i].kind \in DefinitionKinds})
        /\ (before.code = PySnippet.code /\ before.filename = PySnippet.filename) =>
               /\ state.analysis_result.functions =
                      <<[name |-> "f", line |-> 1, args |-> 1, docstring |-> "None"]>>
               /\ state.analysis_result.complexity_score = 0

\* C17, the example alone
C17_ExampleFacts ==
    (Analyzed /\ before.code = PySnippet.code /\ before.filename = PySnippet.filename) =>
        /\ state.language = "python"
        /\ state.analysis_result.functions =
               <<[name |-> "f", line |-> 1, args |-> 1, docstring |-> "None"]>>
        /\ state.analysis_result.complexity_score = 0

\* s is the beginning of t, item for item
IsPrefix(s, t) == Len(s) <= Len(t) /\ SubSeq(t, 1, Len(s)) = s

\* what the node that has just returned added behind the issues it was given
Appended == SubSeq(state.issues, Len(before.issues) + 1, Len(state.issues))

\* C18: the issues the analyzer node or an enrichment node was given are the
\* beginning of the issues it returns, unchanged and in place; an enrichment
\* node runs at most once, adds nothing when its call failed, and adds the
\* issues of its answer once when its call succeeded
C18_IssuesAppendOnly ==
    /\ \A node \in Range(Nodes) : ran[node] <= 1
    /\ \A node \in {"analyzer"} \cup EnrichmentNodes :
          JustRan(node) => IsPrefix(before.issues, state.issues)
    /\ \A node \in EnrichmentNodes :
          JustRan(node) =>
              /\ CallFailed(llm_log[node]) => Appended = <<>>
              /\ CallSucceeded(node, llm_log[node]) => Appended = Contribution(node)

\* C18 witness: the security node was given issues and returned more
C18_Witness ==
    /\ JustRan("security_reviewer")
    /\ before.issues # <<>>
    /\ Len(state.issues) > Len(before.issues)
    /\ IsPrefix(before.issues, state.issues)

\* the values of current_step in the order the workflow reaches them
Steps ==
    <<"start", "analysis_complete", "quality_check_complete", "security_review_complete",
      "performance_optimization_complete", "documentation_complete", "review_complete">>

StepRank(step) == CHOOSE i \in 1..Len(Steps) : Steps[i] = step

\* the node that ran last, while the call is inside the workflow or back from it
LastRan(node) ==
    /\ ran[node] = 1
    /\ \A i \in 1..Len(Nodes) : ran[Nodes[i]] = 1 => StepRank(StepOf(Nodes[i])) <= StepRank(StepOf(node))
    /\ pc \in Range(Nodes) \cup {"END", "except"}

\* C19: current_step is one of the seven markers and never moves backwards
\* over a node; a node that failed (its call raised, its answer did not parse
\* or was malformed, or the node raised) leaves it as it was
C19_StageMarker ==
    (state # NoState /\ before # NoState) =>
        /\ state.current_step \in Range(Steps)
        /\ StepRank(before.current_step) <= StepRank(state.current_step)
        /\ \A node \in EnrichmentNodes :
              (JustRan(node) /\ (CallFailed(llm_log[node]) \/ MalformedOutput(node, llm_log[node])))
                  => state.current_step = before.current_step
        /\ pc = "except" => state.current_step = before.current_step

\* C19, without the malformed answers: the marker never moves backwards, a
\* node whose call raised or whose answer did not parse, or that raised
\* itself, leaves it, and a node that completed sets its own marker
C19_MarkerNeverMovesBack ==
    (state # NoState /\ before # NoState) =>
        /\ state.current_step \in Range(Steps)
        /\ StepRank(before.current_step) <= StepRank(state.current_step)
        /\ \A node \in EnrichmentNodes :
              JustRan(node) =>
                  /\ CallFailed(llm_log[node]) => state.current_step = before.current_step
                  /\ CallSucceeded(node, llm_log[node]) => state.current_step = StepOf(node)
        /\ pc = "except" => state.current_step = before.current_step
        /\ \A node \in Range(Nodes) :
              LastRan(node) => StepRank(state.current_step) <= StepRank(StepOf(node))

\* C20: no node changes code or filename; language and analysis_result are
\* empty until the analyzer node returns, which sets language to the detected
\* language and analysis_result and issues to what the structural analysis
\* and the rule checks give under that language; every later node, whether
\* its call succeeded or failed, returns them as it was given them, and
\* review_code returns them
C20_InputsAndAnalysisAreFixed ==
    (state # NoState /\ before # NoState) =>
        /\ state.code = before.code
        /\ state.filename = before.filename
        /\ IF ran["quality_checker"] = 0
           THEN /\ before.language = ""
                /\ before.analysis_result = EmptyDict
                /\ IF exc # NoExc THEN state = before
                   ELSE /\ state.language = detect_language(before.code, before.filename)
                        /\ Ok(state.analysis_result) =
                               analyze_code_structure(before.code, state.language)
                        /\ state.issues = check_code_quality_issues(before.code, state.language)
           ELSE /\ state.language = before.language
                /\ state.analysis_result = before.analysis_result
                /\ state.language = detect_language(state.code, state.filename)
        /\ (pc = "done" /\ result.success) =>
               /\ result.language = state.language
               /\ result.analysis = state.analysis_result

\* C20 witness: a run came back from the final node with the language and the
\* facts of the analyzer node, after a documentation call that failed and a
\* performance call that wrote issues and optimized_code
C20_Witness ==
    /\ pc = "END"
    /\ state.language = "python"
    /\ state.analysis_result = analyze_code_structure(state.code, "python").val
    /\ Len(state.analysis_result.functions) > 0
    /\ CallFailed(llm_log["documentation_generator"])
    /\ CallSucceeded("performance_optimizer", llm_log["performance_optimizer"])
    /\ state.optimized_code # JStr("")

\* C21: optimized_code is the empty text until the performance node, no other
\* node changes it, and a performance node that failed (its call raised, its
\* answer did not parse or was malformed) leaves it empty; recommendations is
\* empty until the final node, which alone writes it, and review_code returns
\* what the final node wrote
C21_WrittenByOneNode ==
    (state # NoState /\ before # NoState) =>
        /\ ran["performance_optimizer"] = 0 => state.optimized_code = JStr("")
        /\ ran["documentation_generator"] = 1 => state.optimized_code = before.optimized_code
        /\ (/\ JustRan("performance_optimizer")
            /\ \/ CallFailed(llm_log["performance_optimizer"])
               \/ MalformedOutput("performance_optimizer", llm_log["performance_optimizer"]))
               => state.optimized_code = JStr("")
        /\ (ran["final_reviewer"] = 0 \/ exc # NoExc) => state.recommendations = <<>>
        /\ ran["final_reviewer"] = 1 => before.recommendations = <<>>
        /\ (pc = "done" /\ result.success) =>
               /\ result.recommendations = state.recommendations
               /\ result.optimized_code = state.optimized_code

\* C21, without the malformed answers: only the performance node writes
\* optimized_code, and not when its call raised or its answer did not parse;
\* only the final node writes recommendations
C21_OnlyItsWriters ==
    (state # NoState /\ before # NoState) =>
        /\ ran["performance_optimizer"] = 0 => state.optimized_code = JStr("")
        /\ ran["documentation_generator"] = 1 => state.optimized_code = before.optimized_code
        /\ (JustRan("performance_optimizer") /\ CallFailed(llm_log["performance_optimizer"]))
               => state.optimized_code = JStr("")
        /\ (ran["final_reviewer"] = 0 \/ exc # NoExc) => state.recommendations = <<>>
        /\ ran["final_reviewer"] = 1 => before.recommendations = <<>>
        /\ (pc = "done" /\ result.success) =>
               /\ result.recommendations = state.recommendations
               /\ result.optimized_code = state.optimized_code

\* the table order of the four languages
TableOrder == <<"python", "javascript", "typescript", "java">>

\* the keyword sets of the four languages
KeywordSet(lang) ==
    CASE lang = "python" ->
           {"def", "class", "import", "from", "if", "for", "while", "try", "except"}
      [] lang = "javascript" ->
           {"function", "var", "let", "const", "if", "for", "while", "try", "catch"}
      [] lang = "typescript" ->
           {"function", "var", "let", "const", "interface", "type", "class"}
      [] lang = "java" ->
           {"public", "private", "class", "interface", "if", "for", "while", "try", "catch"}

\* the number of places of the text where a whole word is one of the words
WholeWords(code, words) ==
    Cardinality({p \in UNION {{<<i, j>> : j \in 1..Len(code.lines[i].lex)} :
                                 i \in 1..Len(code.lines)} :
                    code.lines[p[1]].lex[p[2]] \in words})

\* the score of the k-th language of the table on the text the analyzer was given
ScoreAt(k) == WholeWords(before.code, KeywordSet(TableOrder[k]))

\* C22: when the file name is empty or ends in no known extension, the
\* language is the one whose keywords occur most often as whole words in the
\* code, the first of the table order python, javascript, typescript, java
\* among those with the highest score (one language per text and file name)
C22_KeywordFallback ==
    (Analyzed /\ (before.filename = <<>> \/ Claimants(before.filename) = <<>>)) =>
        \E k \in 1..Len(TableOrder) :
            /\ state.language = TableOrder[k]
            /\ \A j \in 1..Len(TableOrder) : ScoreAt(j) <= ScoreAt(k)
            /\ \A j \in 1..(k - 1) : ScoreAt(j) < ScoreAt(k)

\* C22 witness: a text without a telling file name on which two languages
\* share the highest score, above zero, and the earlier of the two was returned
C22_Witness ==
    /\ Analyzed
    /\ Claimants(before.filename) = <<>>
    /\ \E k \in 2..Len(TableOrder) : \E l \in (k + 1)..Len(TableOrder) :
          /\ state.language = TableOrder[k]
          /\ ScoreAt(k) = ScoreAt(l)
          /\ ScoreAt(k) > 0
          /\ \A j \in 1..Len(TableOrder) : ScoreAt(j) <= ScoreAt(k)

AllInitialized == \A c \in Sessions : inits[c].pc = "ready"

\* C23: a session that finds a saved index loads it and does not build; at
\* most one session builds and saves, no two write the files together and the
\* files are those of one save; when every session is ready the saved index
\* is the one found, or one complete build from the seed data, and every
\* session holds it
C23_BuildOrLoadOnce ==
    /\ \A c \in Sessions : inits[c].found = "index" => ~inits[c].built
    /\ Cardinality({c \in Sessions : inits[c].built}) <= 1
    /\ Cardinality(saved.writers) <= 1
    /\ saved.intact
    /\ AllInitialized =>
          /\ saved.path = "index"
          /\ (\E c \in Sessions : inits[c].built) => saved.docs = SeedDocuments
          /\ \A c \in Sessions : stores[c] = Store(saved.docs)

\* C23, for one session after the other: the second finds what the first
\* saved, loads it and does not build
C23_LaterSessionLoads ==
    \A c \in Sessions :
        (inits[c].found = "index" /\ inits[c].pc = "ready") =>
            /\ ~inits[c].built
            /\ stores[c].loaded

\* what one review_code call returns when it runs alone on the input, with
\* the model answering its four nodes as llm says and the index as faiss says
RunAlone(input, llm, faiss) ==
    LET s0 == InitialState(input.code, input.filename)
        a == analyzer_agent(s0)
    IN IF ~a.ok THEN review_code_result(s0, a.err)
       ELSE LET q == quality_checker_agent(a.val, llm["quality_checker"])
                v == security_reviewer_agent(q, llm["security_reviewer"])
                o == performance_optimizer_agent(v, llm["performance_optimizer"])
                d == documentation_generator_agent(o, llm["documentation_generator"])
                f == final_reviewer_agent(d, SeedStore, [i \in 1..Len(d.issues) |-> faiss])
            IN IF f.ok THEN review_code_result(f.val, NoExc)
               ELSE review_code_result(d, f.err)

MessagesOn(issues, severity, message, i) ==
    {k \in 1..Len(issues) :
        /\ issues[k].vals["severity"] = JStr(severity)
        /\ issues[k].vals["message"] = JStr(message)
        /\ issues[k].vals["line"] = JNum(i)}

\* the lexemes of the line that are not blanks
Solid(line) == SelectSeq(line.lex, LAMBDA x : x # " ")

\* the line is an except clause naming no exception type
IsBareExcept(line) ==
    Len(Solid(line)) >= 2 /\ Solid(line)[1] = "except" /\ Solid(line)[2] = ":"

\* the line is a plain import statement / a from-import statement
IsPlainImport(line) == Len(Solid(line)) >= 2 /\ Solid(line)[1] = "import"
IsFromImport(line) == Len(Solid(line)) >= 2 /\ Solid(line)[1] = "from"

\* C25: under python each line that is a bare except clause gets one Warning
\* and each from-import line right after a plain import line gets one Info,
\* with the number of the line; under any other language the two checks give
\* nothing
C25_PythonChecks ==
    Analyzed =>
        \A i \in 1..Len(before.code.lines) :
            LET warned == MessagesOn(state.issues, "Warning", "name the exception type", i)
                noted == MessagesOn(state.issues, "Info",
                                    "put from-imports before plain imports", i)
            IN IF state.language = "python"
               THEN /\ IsBareExcept(before.code.lines[i]) => Cardinality(warned) = 1
                    /\ (/\ i > 1
                        /\ IsFromImport(before.code.lines[i])
                        /\ IsPlainImport(before.code.lines[i - 1])) => Cardinality(noted) = 1
               ELSE warned = {} /\ noted = {}

\* C25, for the clauses written without a blank before the colon
C25_ChecksOfTheText ==
    Analyzed =>
        \A i \in 1..Len(before.code.lines) :
            LET warned == MessagesOn(state.issues, "Warning", "name the exception type", i)
                noted == MessagesOn(state.issues, "Info",
                                    "put from-imports before plain imports", i)
            IN IF state.language = "python"
               THEN /\ (IsBareExcept(before.code.lines[i]) /\ HasBareExcept(before.code.lines[i].lex))
                           => Cardinality(warned) = 1
                    /\ (/\ i > 1
                        /\ IsFromImport(before.code.lines[i])
                        /\ IsPlainImport(before.code.lines[i - 1])) => Cardinality(noted) = 1
               ELSE warned = {} /\ noted = {}

\* the item is an issue record with a message that is not empty
IsIssueRecord(item) ==
    /\ item.jt = "object"
    /\ "message" \in DOMAIN item.vals
    /\ item.vals["message"].jt = "string"
    /\ item.vals["message"] # JStr("")

\* the severity an issue counts with: its own, Info when it names none
ReadSeverity(item) ==
    IF "severity" \in DOMAIN item.vals THEN item.vals["severity"] ELSE JStr("Info")

\* C26: after every node each item of issues is an issue record with a
\* non-empty message, and an issue that names no severity is sorted and
\* counted as Info
C26_IssuesAreRecords ==
    state # NoState =>
        /\ \A i \in 1..Len(state.issues) : IsIssueRecord(state.issues[i])
        /\ (pc = "done" /\ result.success) =>
               result.summary.severity_breakdown["Info"] =
                   Cardinality({i \in 1..Len(result.issues) :
                                   ReadSeverity(result.issues[i]) = JStr("Info")})

\* C26, second half alone: in every review that succeeds an issue without a
\* severity stands behind every Critical and Warning issue and is counted
\* under Info
C26_MissingSeverityIsInfo ==
    (pc = "done" /\ result.success) =>
        /\ result.summary.severity_breakdown["Info"] =
               Cardinality({i \in 1..Len(result.issues) :
                               ReadSeverity(result.issues[i]) = JStr("Info")})
        /\ \A i \in 1..Len(result.issues) :
              "severity" \notin DOMAIN result.issues[i].vals =>
                  \A j \in (i + 1)..Len(result.issues) :
                      ReadSeverity(result.issues[j]) \notin {JStr("Critical"), JStr("Warning")}

\* C27: under every language but python, 'unknown' included, the complexity
\* score is the number of whole-word occurrences of if, for, while, switch,
\* case, try, catch in the text, whatever the language, and lines_of_code is
\* the number of segments the newlines cut the text into, an empty last
\* segment included
C27_GenericFacts ==
    (call.made /\ call.language # "python") =>
        /\ call.ret.ok
        /\ call.ret.val.complexity_score =
               WholeWords(call.code, {"if", "for", "while", "switch", "case", "try", "catch"})
        /\ call.ret.val.lines_of_code = Len(call.code.lines)

\* C27 witness: under 'unknown' the text "switch (x) { case 1: break; }\n"
\* scores 2 and has 2 lines, the second one empty
C27_Witness ==
    /\ call.made
    /\ call.language = "unknown"
    /\ call.code = SwitchCode
    /\ call.code.lines[2].lex = <<>>
    /\ call.ret.ok
    /\ call.ret.val.complexity_score = 2
    /\ call.ret.val.lines_of_code = 2

\* the index of the session the call was made in
StoreOf(w) == stores[adds[w].session]

\* the documents a search of the index can return
Searchable(store) == IF store.loaded THEN Range(store.docs) ELSE {}

\* C28: a call that returned True has its document in the index of its
\* session; a call that returned False left the index of its session and the
\* saved index without its document, so no search returns it
C28_FailureChangesNothing ==
    \A w \in Adders :
        adds[w].pc = "returned" =>
            IF adds[w].ret
            THEN CustomPractice(w) \in Searchable(StoreOf(w))
            ELSE /\ CustomPractice(w) \notin Searchable(StoreOf(w))
                 /\ CustomPractice(w) \notin Range(saved.docs)

\* C28, without the saves that fail: True means the document is in the
\* session's index, and False from a call that never reached add_documents,
\* or whose add_documents raised, means nothing was changed
C28_TrueMeansAdded ==
    \A w \in Adders :
        /\ (adds[w].pc = "returned" /\ adds[w].ret) =>
               CustomPractice(w) \in Searchable(StoreOf(w))
        /\ CustomPractice(w) \in Searchable(StoreOf(w)) =>
               \E v \in Adders :
                   /\ adds[v].session = adds[w].session
                   /\ CustomPractice(v) = CustomPractice(w)
                   /\ adds[v].pc \in {"added", "saving", "returned"}
        /\ CustomPractice(w) \in Range(saved.docs) =>
               CustomPractice(w) \in Searchable(StoreOf(w))

====
